---- MODULE Spec2Model ----
(***************************************************************************)
(* A model of rust-irclib: the Line codec and User identity (src/lib.rs,   *)
(* src/conn.rs), the built-in handlers (src/handlers.rs) and the           *)
(* connection core with its reader, writer and event loop (src/conn.rs).   *)
(* Bytes are modelled as one-character strings; SOH stands for byte 0x01.  *)
(***************************************************************************)
EXTENDS Integers, Sequences, FiniteSets, TLC

\* ------------------------------------------------------------------------
\* Bytes and byte strings
\* ------------------------------------------------------------------------
SP == " "
CR == "\r"
LF == "\n"
SOH == "^A"
Digits == <<"0", "1", "2", "3", "4", "5", "6", "7", "8", "9">>
DigitSet == {Digits[i] : i \in 1..10}
Alpha == {"A","B","C","D","E","F","G","H","I","J","K","L","M","N","O","P","Q",
          "R","S","T","U","V","W","X","Y","Z","a","b","c","d","e","f","g","h",
          "i","j","k","l","m","n","o","p","q","r","s","t","u","v","w","x","y","z"}

Min(a, b) == IF a < b THEN a ELSE b

\* v.slice(a, b), v.slice_to(b), v.slice_from(a) with 0-based offsets
Slice(v, a, b) == SubSeq(v, a + 1, b)
SliceTo(v, b) == SubSeq(v, 1, b)
SliceFrom(v, a) == SubSeq(v, a + 1, Len(v))

\* F applied to the value of e, with e evaluated once
Bind(e, F(_)) == CHOOSE r \in {F(x) : x \in {e}} : TRUE

\* v.position_elem(&b): 0-based index of the first b, -1 for None
PositionElem(v0, b) ==
    Bind(v0, LAMBDA v :
        IF \E i \in 1..Len(v) : v[i] = b
        THEN (CHOOSE i \in 1..Len(v) : v[i] = b /\ \A j \in 1..(i - 1) : v[j] # b) - 1
        ELSE -1)

StartsWith(v, p) == Len(v) >= Len(p) /\ SubSeq(v, 1, Len(p)) = p
EndsWith(v, p) == Len(v) >= Len(p) /\ SubSeq(v, Len(v) - Len(p) + 1, Len(v)) = p
Positions(v, b) == {i \in 1..Len(v) : v[i] = b}
Contains(v, b) == \E i \in 1..Len(v) : v[i] = b
Last(s) == s[Len(s)]
Front(s) == SubSeq(s, 1, Len(s) - 1)
Rep(b, n) == [i \in 1..n |-> b]

RECURSIVE Flatten(_)
Flatten(ss) == IF ss = <<>> THEN <<>> ELSE Head(ss) \o Flatten(Tail(ss))

\* uint::to_str_bytes(n, 10, ..): the decimal digits of n, no padding
RECURSIVE to_str_bytes(_)
to_str_bytes(n) ==
    IF n < 10 THEN <<Digits[n + 1]>>
    ELSE to_str_bytes(n \div 10) \o <<Digits[(n % 10) + 1]>>

DigitVal(b) == (CHOOSE i \in 1..10 : Digits[i] = b) - 1

\* uint::parse_bytes(v, 10) on a string of decimal digits
RECURSIVE parse_bytes(_)
parse_bytes(v) ==
    IF v = <<>> THEN 0
    ELSE 10 * parse_bytes(Front(v)) + DigitVal(Last(v))

\* ------------------------------------------------------------------------
\* chomp / chomp_owned (src/conn.rs)
\* ------------------------------------------------------------------------
chomp(s) ==
    IF Len(s) > 0
    THEN IF Last(s) = CR THEN SliceTo(s, Len(s) - 1)
         ELSE IF Last(s) = LF
              THEN IF Len(s) > 1 /\ s[Len(s) - 1] = CR
                   THEN SliceTo(s, Len(s) - 2)
                   ELSE SliceTo(s, Len(s) - 1)
              ELSE s
    ELSE s

\* returns the truncated vector and the boolean result
chomp_owned(s) ==
    LET len == Len(chomp(s))
    IN IF len < Len(s) THEN [line |-> SliceTo(s, len), ok |-> TRUE]
       ELSE [line |-> s, ok |-> FALSE]

\* ------------------------------------------------------------------------
\* User (src/lib.rs).  Offsets are 0-based as in the source; an absent
\* user/host span is the empty tuple.
\* ------------------------------------------------------------------------
\* User::parse taking the first '!' wherever it is
User_parse_anybang(v0) ==
  Bind(v0, LAMBDA v :
    LET atloc == PositionElem(v, "@")
        bangloc == PositionElem(v, "!")
        nicklen == IF bangloc # -1 THEN bangloc
                   ELSE IF atloc # -1 THEN atloc ELSE Len(v)
    IN [raw |-> v,
        nicklen |-> nicklen,
        user |-> IF bangloc = -1 THEN <<>>
                 ELSE <<bangloc + 1, IF atloc = -1 THEN Len(v) ELSE atloc>>,
        host |-> IF atloc = -1 THEN <<>> ELSE <<atloc + 1, Len(v)>>])

User_parse(v0) ==
  Bind(v0, LAMBDA v :
    LET atloc == PositionElem(v, "@")
        scanned == IF atloc = -1 THEN v ELSE SliceTo(v, atloc)
        bangloc == PositionElem(scanned, "!")
        nicklen == IF bangloc # -1 THEN bangloc
                   ELSE IF atloc # -1 THEN atloc ELSE Len(v)
    IN [raw |-> v,
        nicklen |-> nicklen,
        user |-> IF bangloc = -1 THEN <<>>
                 ELSE <<bangloc + 1, IF atloc = -1 THEN Len(v) ELSE atloc>>,
        host |-> IF atloc = -1 THEN <<>> ELSE <<atloc + 1, Len(v)>>])

\* Option<&[u8]> is modelled as [some, v]
NoBytes == [some |-> FALSE, v |-> <<>>]
SomeBytes(b) == [some |-> TRUE, v |-> b]

\* User::new filling the fields from its arguments, without re-parsing
User_new_direct(nick, user, host) ==
    LET ulen == IF user.some THEN Len(user.v) + 1 ELSE 0
        hlen == IF host.some THEN Len(host.v) + 1 ELSE 0
    IN [raw |-> nick
                \o (IF user.some THEN <<"!">> \o user.v ELSE <<>>)
                \o (IF host.some THEN <<"@">> \o host.v ELSE <<>>),
        nicklen |-> Len(nick),
        user |-> IF user.some THEN <<Len(nick) + 1, Len(nick) + ulen>> ELSE <<>>,
        host |-> IF host.some
                 THEN <<Len(nick) + ulen + 1, Len(nick) + ulen + hlen>>
                 ELSE <<>>]

User_new(nick, user, host) ==
    User_parse(nick
               \o (IF user.some THEN <<"!">> \o user.v ELSE <<>>)
               \o (IF host.some THEN <<"@">> \o host.v ELSE <<>>))

User_raw(u) == u.raw
User_nick(u) == SliceTo(u.raw, u.nicklen)
User_user(u) == IF u.user = <<>> THEN NoBytes
                ELSE SomeBytes(Slice(u.raw, u.user[1], u.user[2]))
User_host(u) == IF u.host = <<>> THEN NoBytes
                ELSE SomeBytes(Slice(u.raw, u.host[1], u.host[2]))
with_nick(u, nick) == User_new(nick, User_user(u), User_host(u))

\* ------------------------------------------------------------------------
\* Command and Line (src/conn.rs).  A Command is [tag, a, b, code]: a and b
\* are the first and second positional fields of the variant.
\* ------------------------------------------------------------------------
IRCCmd(name) == [tag |-> "IRCCmd", a |-> name, b |-> <<>>, code |-> 0]
IRCCode(n) == [tag |-> "IRCCode", a |-> <<>>, b |-> <<>>, code |-> n]
IRCAction(dst) == [tag |-> "IRCAction", a |-> dst, b |-> <<>>, code |-> 0]
IRCCTCP(x, y) == [tag |-> "IRCCTCP", a |-> x, b |-> y, code |-> 0]
IRCCTCPReply(x, y) == [tag |-> "IRCCTCPReply", a |-> x, b |-> y, code |-> 0]

is_ctcp(cmd) == cmd.tag \in {"IRCAction", "IRCCTCP", "IRCCTCPReply"}

\* Option<User>
NoUser == [some |-> FALSE, raw |-> <<>>]
SomeUser(u) == [some |-> TRUE, raw |-> User_raw(u)]

Line(prefix, command, args) == [prefix |-> prefix, command |-> command, args |-> args]

\* the result of Line::parse: Some(line), None, or a task failure
SomeLine(l) == [tag |-> "Some", line |-> l]
NoLine == [tag |-> "None", line |-> Line(NoUser, IRCCmd(<<>>), <<>>)]
ParseFailure == [tag |-> "Fail", line |-> Line(NoUser, IRCCmd(<<>>), <<>>)]

bPRIVMSG == <<"P","R","I","V","M","S","G">>
bNOTICE == <<"N","O","T","I","C","E">>
bACTION == <<"A","C","T","I","O","N">>
bNICK == <<"N","I","C","K">>
bUSER == <<"U","S","E","R">>
bQUIT == <<"Q","U","I","T">>
bPING == <<"P","I","N","G">>
bPONG == <<"P","O","N","G">>
bJOIN == <<"J","O","I","N">>
bPART == <<"P","A","R","T">>

\* the argument loop of Line::parse
RECURSIVE parse_args(_)
parse_args(v) ==
    IF v = <<>> THEN <<>>
    ELSE IF v[1] = ":" THEN <<SliceFrom(v, 1)>>
    ELSE LET idx == PositionElem(v, SP)
         IN IF idx = -1 THEN <<v>>
            ELSE <<SliceTo(v, idx)>> \o parse_args(SliceFrom(v, idx + 1))

\* the CTCP rewriting that keeps a closing 0x01 in the text
parse_ctcp_keep(prefix, command, args0) ==
    LET text == Tail(Last(args0))
        args1 == Front(args0)
    IN IF args1 = <<>> THEN ParseFailure
       ELSE LET dst == args1[1]
                idx == PositionElem(text, SP)
                ctcpcmd == IF idx = -1 THEN text ELSE SliceTo(text, idx)
                args == IF idx = -1 THEN <<>> ELSE <<SliceFrom(text, idx + 1)>>
                cmd == IF command.a = bPRIVMSG
                       THEN IF ctcpcmd = bACTION THEN IRCAction(dst)
                            ELSE IRCCTCP(ctcpcmd, dst)
                       ELSE IRCCTCPReply(ctcpcmd, dst)
            IN SomeLine(Line(prefix, cmd, args))

\* the CTCP rewriting at the end of Line::parse
parse_ctcp(prefix, command, args0) ==
    LET text0 == Last(args0)
        args1 == Front(args0)
        text == IF Len(text0) > 1 /\ EndsWith(text0, <<SOH>>)
                THEN Slice(text0, 1, Len(text0) - 1)
                ELSE Tail(text0)
    IN IF args1 = <<>> THEN ParseFailure   \* args[0] on an empty vector
       ELSE LET dst == args1[1]
                idx == PositionElem(text, SP)
                ctcpcmd == IF idx = -1 THEN text ELSE SliceTo(text, idx)
                args == IF idx = -1 THEN <<>> ELSE <<SliceFrom(text, idx + 1)>>
                cmd == IF command.a = bPRIVMSG
                       THEN IF ctcpcmd = bACTION THEN IRCAction(dst)
                            ELSE IRCCTCP(ctcpcmd, dst)
                       ELSE IRCCTCPReply(ctcpcmd, dst)
            IN SomeLine(Line(prefix, cmd, args))

parse_rest(prefix, command, checkCTCP, v) ==
    LET args == parse_args(v)
    IN IF checkCTCP /\ args # <<>> /\ StartsWith(Last(args), <<SOH>>)
       THEN parse_ctcp(prefix, command, args)
       ELSE SomeLine(Line(prefix, command, args))

Line_parse(v0) ==
    LET hasPrefix == StartsWith(v0, <<":">>)
        pidx == PositionElem(v0, SP)
    IN IF hasPrefix /\ pidx = -1 THEN NoLine
       ELSE
        LET prefix == IF hasPrefix THEN SomeUser(User_parse(Slice(v0, 1, pidx)))
                      ELSE NoUser
            v1 == IF hasPrefix THEN SliceFrom(v0, pidx + 1) ELSE v0
            cidx == PositionElem(v1, SP)
        IN IF cidx = 0 THEN NoLine
           ELSE
            LET cmd == IF cidx = -1 THEN v1 ELSE SliceTo(v1, cidx)
                v2 == IF cidx = -1 THEN <<>> ELSE SliceFrom(v1, cidx + 1)
            IN IF Len(cmd) = 3 /\ \A i \in 1..Len(cmd) : cmd[i] \in DigitSet
               THEN parse_rest(prefix, IRCCode(parse_bytes(cmd)), FALSE, v2)
               ELSE IF \A i \in 1..Len(cmd) : cmd[i] \in Alpha
               THEN parse_rest(prefix, IRCCmd(cmd),
                               cmd = bPRIVMSG \/ cmd = bNOTICE, v2)
               ELSE NoLine

\* the command part of Line::to_raw
to_raw_command(c) ==
    IF c.tag = "IRCCmd" THEN c.a
    ELSE IF c.tag = "IRCCode"
    THEN LET v == to_str_bytes(c.code)
         IN Rep("0", 3 - Min(Len(v), 3)) \o v
    ELSE IF c.tag = "IRCAction"
    THEN bPRIVMSG \o <<SP>> \o c.a \o <<SP, ":", SOH>> \o bACTION
    ELSE IF c.tag = "IRCCTCP"
    THEN bPRIVMSG \o <<SP>> \o c.b \o <<SP, ":", SOH>> \o c.a
    ELSE bNOTICE \o <<SP>> \o c.b \o <<SP, ":", SOH>> \o c.a

to_raw(l) ==
    LET pre == IF l.prefix.some THEN <<":">> \o l.prefix.raw \o <<SP>> ELSE <<>>
        spaced == [i \in 1..Len(l.args) |-> <<SP>> \o l.args[i]]
        found_space == l.args # <<>> /\ Contains(Last(l.args), SP)
    IN pre \o to_raw_command(l.command) \o
       (IF is_ctcp(l.command) THEN Flatten(spaced) \o <<SOH>>
        ELSE IF l.args # <<>>
        THEN Flatten(Front(spaced)) \o <<SP>>
             \o (IF found_space THEN <<":">> ELSE <<>>) \o Last(l.args)
        ELSE <<>>)

\* ------------------------------------------------------------------------
\* send_command / send_raw framing (src/conn.rs)
\* ------------------------------------------------------------------------
MaxPayload == 510

\* append without the bound of the 510-byte slice
append_uncapped(w, v) == w \o v

\* append(buf, v): copy as much of v as still fits into the 510-byte slice
append(w, v) == w \o SubSeq(v, 1, Min(Len(v), MaxPayload - Len(w)))

RECURSIVE append_all(_, _)
append_all(w, vs) == IF vs = <<>> THEN w ELSE append_all(append(w, Head(vs)), Tail(vs))

\* the command part written by send_command
send_command_head(cmd) ==
    IF cmd.tag = "IRCCmd" THEN <<cmd.a>>
    ELSE IF cmd.tag = "IRCCode" THEN <<to_str_bytes(cmd.code)>>
    ELSE IF cmd.tag = "IRCAction"
    THEN <<bPRIVMSG \o <<SP>>, cmd.a, <<SP, ":", SOH>>, bACTION>>
    ELSE IF cmd.tag = "IRCCTCP"
    THEN <<bPRIVMSG \o <<SP>>, cmd.a, <<SP, ":", SOH>>, cmd.b>>
    ELSE <<bNOTICE \o <<SP>>, cmd.a, <<SP, ":", SOH>>, cmd.b>>

\* the pieces send_command appends, in order
send_command_pieces(cmd, args, add_colon) ==
    send_command_head(cmd)
    \o (IF args # <<>>
        THEN Flatten([i \in 1..(Len(args) - 1) |-> <<<<SP>>, args[i]>>])
             \o <<(IF add_colon THEN <<SP, ":">> ELSE <<SP>>), Last(args)>>
        ELSE <<>>)
    \o (IF is_ctcp(cmd) THEN <<<<SOH>>>> ELSE <<>>)

\* the frame send_command hands to the outbound channel
send_command_frame(cmd, args, add_colon) ==
    append_all(<<>>, send_command_pieces(cmd, args, add_colon)) \o <<CR, LF>>

\* the frame send_raw hands to the outbound channel (raw already chomped)
send_raw_frame(raw) == append(<<>>, raw) \o <<CR, LF>>

\* ------------------------------------------------------------------------
\* Conn operations (src/conn.rs).  A connection value c carries the fields
\* of Conn (write_chan as a boolean: Some/None, logged_in, user) together
\* with the outbound channel it writes to: out is the queue of the channel,
\* port tells whether the writer still holds the receiving end, and log is
\* the record of what the connection has done so far.
\* ------------------------------------------------------------------------
ConnOf(write_chan, logged_in, user, out, port, log) ==
    [write_chan |-> write_chan, logged_in |-> logged_in, user |-> user,
     out |-> out, port |-> port, log |-> log]

Enq(frame) == [k |-> "enq", v |-> frame]

\* chan.try_send(frame) and the `self.write_chan = None` that follows a failure
try_send(c, frame) ==
    IF c.port
    THEN [c EXCEPT !.out = Append(@, frame), !.log = Append(@, Enq(frame))]
    ELSE [c EXCEPT !.write_chan = FALSE]

send_command(c, cmd, args, add_colon) ==
    IF ~c.write_chan THEN c
    ELSE try_send(c, send_command_frame(cmd, args, add_colon))

\* send_raw sending raw as it is, terminator and all
send_raw_unchomped(c, raw0) ==
    IF ~c.write_chan THEN c
    ELSE try_send(c, send_raw_frame(raw0))

send_raw(c, raw0) ==
    LET raw == chomp(raw0)
    IN IF raw = <<>> THEN c
       ELSE IF ~c.write_chan THEN c
       ELSE try_send(c, send_raw_frame(raw))

\* set_nick without the logged_in test: the User is replaced in every state
set_nick_always(c, nick) ==
    Bind(send_command(c, IRCCmd(bNICK), <<nick>>, FALSE), LAMBDA c1 :
        [c1 EXCEPT !.user = with_nick(@, nick)])

set_nick(c, nick) ==
    Bind(send_command(c, IRCCmd(bNICK), <<nick>>, FALSE), LAMBDA c1 :
        IF ~c1.logged_in THEN [c1 EXCEPT !.user = with_nick(@, nick)] ELSE c1)

quit(c, msg) ==
    IF msg = <<>> THEN send_command(c, IRCCmd(bQUIT), <<>>, FALSE)
    ELSE send_command(c, IRCCmd(bQUIT), <<msg>>, TRUE)

privmsg(c, dst, msg) == send_command(c, IRCCmd(bPRIVMSG), <<dst, msg>>, TRUE)

join(c, room, keys) ==
    IF keys = <<>> THEN send_command(c, IRCCmd(bJOIN), <<room>>, FALSE)
    ELSE send_command(c, IRCCmd(bJOIN), <<room, keys>>, FALSE)

part(c, room, msg) ==
    IF msg = <<>> THEN send_command(c, IRCCmd(bPART), <<room>>, FALSE)
    ELSE send_command(c, IRCCmd(bPART), <<room, msg>>, TRUE)

is_connected(c) == c.write_chan

\* ------------------------------------------------------------------------
\* Built-in handlers (src/handlers.rs)
\* ------------------------------------------------------------------------
\* 001 that logs in and keeps the nick
RPL_WELCOME_keep(c, line) == [c EXCEPT !.logged_in = TRUE]

RPL_WELCOME(c, line) ==
    LET c1 == [c EXCEPT !.logged_in = TRUE]
    IN IF line.args # <<>> THEN [c1 EXCEPT !.user = with_nick(@, line.args[1])]
       ELSE c1

\* bad_nick replacing the first byte other than '_' instead of the last
bad_nick_first(c, line) ==
    LET nick == IF line.args # <<>> THEN line.args[1] ELSE User_nick(c.user)
        modified == \E i \in 1..Len(nick) : nick[i] # "_"
        idx == CHOOSE i \in 1..Len(nick) :
                   nick[i] # "_" /\ \A j \in 1..(i - 1) : nick[j] = "_"
    IN IF modified THEN set_nick(c, [nick EXCEPT ![idx] = "_"])
       ELSE quit(c, <<>>)

\* bad_nick requesting the same nick again when it is all underscores
bad_nick_retry(c, line) ==
    LET nick == IF line.args # <<>> THEN line.args[1] ELSE User_nick(c.user)
        modified == \E i \in 1..Len(nick) : nick[i] # "_"
        idx == CHOOSE i \in 1..Len(nick) :
                   nick[i] # "_" /\ \A j \in (i + 1)..Len(nick) : nick[j] = "_"
    IN IF modified
       THEN Bind([nick EXCEPT ![idx] = "_"], LAMBDA n : set_nick(c, n))
       ELSE set_nick(c, nick)

bad_nick(c, line) ==
    LET nick == IF line.args # <<>> THEN line.args[1] ELSE User_nick(c.user)
        modified == \E i \in 1..Len(nick) : nick[i] # "_"
        idx == CHOOSE i \in 1..Len(nick) :
                   nick[i] # "_" /\ \A j \in (i + 1)..Len(nick) : nick[j] = "_"
    IN IF modified
       THEN Bind([nick EXCEPT ![idx] = "_"], LAMBDA n : set_nick(c, n))
       ELSE quit(c, <<>>)

ERR_NICKNAMEINUSE(c, line) ==
    IF line.args # <<>> /\ line.args[1] = User_nick(c.user)
    THEN Bind(line.args[1] \o <<"_">>, LAMBDA n : set_nick(c, n))
    ELSE bad_nick(c, line)

ERR_ERRONEUSNICKNAME(c, line) == bad_nick(c, line)
ERR_NICKCOLLISION(c, line) == bad_nick(c, line)
ERR_UNAVAILRESOURCE(c, line) == bad_nick(c, line)

PING(c, line) == send_command(c, IRCCmd(bPONG), line.args, FALSE)

\* NICK that follows a rename of any user
NICK_any(c, line) ==
    IF line.args = <<>> THEN c
    ELSE IF line.prefix.some
    THEN [c EXCEPT !.user = with_nick(@, line.args[1])]
    ELSE c

NICK(c, line) ==
    IF line.args = <<>> THEN c
    ELSE IF line.prefix.some
            /\ User_nick(User_parse(line.prefix.raw)) = User_nick(c.user)
    THEN [c EXCEPT !.user = with_nick(@, line.args[1])]
    ELSE c

\* handle_line with the handshake table consulted whatever logged_in says
handle_line_stateless(c, line) ==
    IF line.command = IRCCode(1) THEN RPL_WELCOME(c, line)
    ELSE IF line.command = IRCCode(433) THEN ERR_NICKNAMEINUSE(c, line)
    ELSE IF line.command = IRCCode(432) THEN ERR_ERRONEUSNICKNAME(c, line)
    ELSE IF line.command = IRCCode(436) THEN ERR_NICKCOLLISION(c, line)
    ELSE IF line.command = IRCCode(437) THEN ERR_UNAVAILRESOURCE(c, line)
    ELSE IF line.command = IRCCmd(bPING) THEN PING(c, line)
    ELSE IF c.logged_in /\ line.command = IRCCmd(bNICK) THEN NICK(c, line)
    ELSE c

handle_line(c, line) ==
    IF ~c.logged_in
    THEN IF line.command = IRCCode(1) THEN RPL_WELCOME(c, line)
         ELSE IF line.command = IRCCode(433) THEN ERR_NICKNAMEINUSE(c, line)
         ELSE IF line.command = IRCCode(432) THEN ERR_ERRONEUSNICKNAME(c, line)
         ELSE IF line.command = IRCCode(436) THEN ERR_NICKCOLLISION(c, line)
         ELSE IF line.command = IRCCode(437) THEN ERR_UNAVAILRESOURCE(c, line)
         ELSE IF line.command = IRCCmd(bPING) THEN PING(c, line)
         ELSE c
    ELSE IF line.command = IRCCmd(bPING) THEN PING(c, line)
         ELSE IF line.command = IRCCmd(bNICK) THEN NICK(c, line)
         ELSE c

\* ------------------------------------------------------------------------
\* State
\* ------------------------------------------------------------------------
VARIABLES
    cin,      \* codec: the input drawn for a codec operation
    cout,     \* codec: the result of the operation
    cop,      \* codec: the operation applied ("init" before any)
    uin,      \* user: the input drawn for a User operation
    uout,     \* user: the User the operation gave
    uop,      \* user: the operation applied ("init" before any)
    hc,       \* handlers: the connection before handle_line
    hl,       \* handlers: the line dispatched
    hr,       \* handlers: the connection after handle_line
    hop,      \* handlers: "init", then "handled", or "set" and then "echoed"
    hn,       \* handlers: the nick given to set_nick
    kc,       \* collision loop: the client's connection
    kin,      \* collision loop: raw lines the server has sent, not yet dispatched
    kquit,    \* collision loop: the server has received QUIT
    opts,     \* session: the Options given to connect
    net,      \* session: what resolving and connecting gave ("none" before)
    pc,       \* session: where connect / the event loop stands
    conn,     \* session: the Conn fields write_chan, logged_in, user
    cur,      \* session: the line dispatched last, awaiting its callback
    result,   \* session: the result variable of Conn::run
    ret,      \* session: what connect returned ("none" while it runs)
    log,      \* session: what has happened so far, in order
    writeQ,   \* session: frames in the outbound channel
    wpc,      \* session: the writer task: "off", "recv", "done"
    written,  \* session: frames written to the socket
    readQ,    \* session: lines in the inbound channel
    rpc,      \* session: the reader task: "off", "read", "done"
    nread,    \* session: how many lines the reader has read
    errQ,     \* session: errors in the error channel
    cmdQ,     \* session: commands in the command channel
    cmdSender,   \* session: the caller still holds the sending end
    cmdPort,     \* session: the receiving end of the command channel exists
    cmd_handle,  \* session: the select handle of the command port is set
    submitted,   \* session: the commands the caller has sent, in order
    procs     \* session: the commands drained at shutdown

codecVars == <<cin, cout, cop>>
userVars == <<uin, uout, uop>>
handVars == <<hc, hl, hr, hop, hn>>
collVars == <<kc, kin, kquit>>
loopVars == <<opts, net, pc, conn, cur, result, ret, log>>
writerVars == <<writeQ, wpc, written>>
readerVars == <<readQ, rpc, nread>>
cmdVars == <<cmdQ, cmdSender, cmdPort, cmd_handle, submitted, procs>>
sessVars == <<loopVars, writerVars, readerVars, errQ, cmdVars>>
vars == <<cin, cout, cop, uin, uout, uop, hc, hl, hr, hop, hn, kc, kin, kquit, opts, net, pc, conn, cur,
          result, ret, log, writeQ, wpc, written, readQ, rpc, nread,
          errQ, cmdQ, cmdSender, cmdPort, cmd_handle, submitted, procs>>

\* ------------------------------------------------------------------------
\* Codec operations on bounded inputs
\* ------------------------------------------------------------------------
MaxWords == 4
MaxArgs == 2

bn == <<"n">>
bChan == <<"#", "c">>
bV == <<"V">>

\* the words raw input lines are made of, joined by single spaces
WordPool ==
    { <<>>, bn, <<":">> \o bn, bPRIVMSG, bNOTICE, <<"0", "0", "4">>,
      <<"f", "2", "3">>, <<":", SOH>> \o bACTION, <<SOH>> \o bV,
      <<":", SOH>> \o bV, <<"x", SOH>> }

RECURSIVE JoinWords(_)
JoinWords(ws) ==
    IF ws = <<>> THEN <<>>
    ELSE IF Len(ws) = 1 THEN ws[1]
    ELSE ws[1] \o <<SP>> \o JoinWords(Tail(ws))

SeqsUpTo(S, n) == UNION {[1..k -> S] : k \in 0..n}

\* lengths around the 510-byte cap
LongLens == {MaxPayload - 6, MaxPayload - 5, MaxPayload - 4, MaxPayload,
             MaxPayload + 1}
Terminators == {<<>>, <<CR>>, <<LF>>, <<CR, LF>>, <<CR, CR, LF>>}

RawPool(words) ==
    {JoinWords(ws) : ws \in SeqsUpTo(WordPool, words)}
    \cup {Rep("x", n) \o t : n \in LongLens \cup {0, 1}, t \in Terminators}

PrefixPool == {NoUser, SomeUser(User_parse(bn)),
               SomeUser(User_parse(<<"n", "!", "u", "@", "h">>))}

CommandPool ==
    {IRCCmd(bPING), IRCCmd(bPRIVMSG), IRCCmd(bNICK),
     IRCCode(1), IRCCode(42), IRCCode(433), IRCCode(1000),
     IRCAction(bChan), IRCCTCP(bV, bChan), IRCCTCPReply(bV, bChan)}

ArgPool ==
    {<<>>, bn, <<"a", SP, "b">>, <<":">> \o bn, <<SOH>> \o bV,
     Rep("x", MaxPayload - 6), Rep("x", MaxPayload - 5), Rep("x", MaxPayload)}

LinePool(args) ==
    {Line(p, c, a) : p \in PrefixPool, c \in CommandPool,
                     a \in SeqsUpTo(ArgPool, args)}

CodecInput(kind, raw, line, add_colon) ==
    [kind |-> kind, raw |-> raw, line |-> line, add_colon |-> add_colon]

RawInputs(words) ==
    {CodecInput("raw", r, NoLine.line, FALSE) : r \in RawPool(words)}
LineInputs(args) ==
    {CodecInput("line", <<>>, l, f) : l \in LinePool(args), f \in BOOLEAN}

CodecOut(res, bytes, frames) == [res |-> res, bytes |-> bytes, frames |-> frames]

\* a freshly opened connection whose writer is running
OpenConn == ConnOf(TRUE, FALSE, User_new(bn, SomeBytes(<<"u">>), NoBytes),
                   <<>>, TRUE, <<>>)

\* the values of the variables a specification does not use
IdleCodec ==
    /\ cin = CodecInput("none", <<>>, NoLine.line, FALSE)
    /\ cout = CodecOut(NoLine, <<>>, <<>>)
    /\ cop = "idle"
IdleUser ==
    /\ uin = [kind |-> "none", raw |-> <<>>, nick |-> <<>>, user |-> NoBytes,
              host |-> NoBytes]
    /\ uout = OpenConn.user
    /\ uop = "idle"
IdleHandlers ==
    hc = OpenConn /\ hl = NoLine.line /\ hr = OpenConn /\ hop = "idle" /\ hn = <<>>
IdleCollide == kc = OpenConn /\ kin = <<>> /\ kquit = FALSE
IdleSession ==
    /\ opts = [host |-> "Addr", commands |-> FALSE, nick |-> bn]
    /\ net = "none"
    /\ pc = "idle"
    /\ conn = [write_chan |-> FALSE, logged_in |-> FALSE, user |-> OpenConn.user]
    /\ cur = NoLine.line
    /\ result = "Ok" /\ ret = "none" /\ log = <<>>
    /\ writeQ = <<>> /\ wpc = "off" /\ written = <<>>
    /\ readQ = <<>> /\ rpc = "off" /\ nread = 0
    /\ errQ = <<>>
    /\ cmdQ = <<>> /\ cmdSender = FALSE /\ cmdPort = FALSE /\ cmd_handle = FALSE
    /\ submitted = <<>> /\ procs = <<>>

InitCodec ==
    /\ \/ cin \in RawInputs(MaxWords)
       \/ cin \in LineInputs(MaxArgs)
    /\ cout = CodecOut(NoLine, <<>>, <<>>)
    /\ cop = "init"
    /\ IdleUser /\ IdleHandlers /\ IdleCollide /\ IdleSession

DoParse ==
    /\ cop = "init" /\ cin.kind = "raw"
    /\ cout' = CodecOut(Line_parse(cin.raw), <<>>, <<>>)
    /\ cop' = "parse"
    /\ UNCHANGED <<cin, userVars, handVars, collVars, sessVars>>

DoSendRaw ==
    /\ cop = "init" /\ cin.kind = "raw"
    /\ cout' = CodecOut(NoLine, <<>>, send_raw(OpenConn, cin.raw).out)
    /\ cop' = "send_raw"
    /\ UNCHANGED <<cin, userVars, handVars, collVars, sessVars>>

DoToRaw ==
    /\ cop = "init" /\ cin.kind = "line"
    /\ cout' = CodecOut(NoLine, to_raw(cin.line), <<>>)
    /\ cop' = "to_raw"
    /\ UNCHANGED <<cin, userVars, handVars, collVars, sessVars>>

DoRoundTrip ==
    /\ cop = "init" /\ cin.kind = "line"
    /\ cout' = CodecOut(Line_parse(to_raw(cin.line)), to_raw(cin.line), <<>>)
    /\ cop' = "roundtrip"
    /\ UNCHANGED <<cin, userVars, handVars, collVars, sessVars>>

DoSendCommand ==
    /\ cop = "init" /\ cin.kind = "line"
    /\ cout' = CodecOut(NoLine, <<>>,
                        send_command(OpenConn, cin.line.command, cin.line.args,
                                     cin.add_colon).out)
    /\ cop' = "send_command"
    /\ UNCHANGED <<cin, userVars, handVars, collVars, sessVars>>

\* parse a raw line, with or without one more closing 0x01 byte, and
\* serialize the result
DoReserialize ==
    /\ cop = "init" /\ cin.kind = "raw"
    /\ \E closed \in BOOLEAN :
        LET v == IF closed THEN cin.raw \o <<SOH>> ELSE cin.raw
            line == Line_parse(v)
        IN /\ cout' = CodecOut(line, IF line.tag = "Some" THEN to_raw(line.line)
                                     ELSE <<>>, <<>>)
           /\ cop' = IF closed THEN "reserialize_closed" ELSE "reserialize"
    /\ UNCHANGED <<cin, userVars, handVars, collVars, sessVars>>

\* what the reader task forwards for a line read_until gave it
reader_forward(raw) ==
    LET r == chomp_owned(raw)
    IN IF r.ok /\ Len(r.line) > 0 THEN <<r.line>> ELSE <<>>

\* the reader task on one line: chomp_owned, then try_send if not empty
DoReaderLine ==
    /\ cop = "init" /\ cin.kind = "raw"
    /\ Positions(cin.raw, LF) \subseteq {Len(cin.raw)}
    /\ cout' = CodecOut(NoLine, <<>>, reader_forward(cin.raw))
    /\ cop' = "reader"
    /\ UNCHANGED <<cin, userVars, handVars, collVars, sessVars>>

NextCodec ==
    DoParse \/ DoSendRaw \/ DoToRaw \/ DoRoundTrip \/ DoSendCommand
    \/ DoReserialize \/ DoReaderLine

SpecCodec == InitCodec /\ [][NextCodec]_vars

\* ------------------------------------------------------------------------
\* Properties of the codec operations
\* ------------------------------------------------------------------------
FrameOK(f) ==
    /\ Len(f) >= 2
    /\ Len(f) <= MaxPayload + 2
    /\ Len(f) - 2 <= MaxPayload
    /\ f[Len(f) - 1] = CR
    /\ f[Len(f)] = LF

RECURSIVE SumLen(_)
SumLen(ss) == IF ss = <<>> THEN 0 ELSE Len(Head(ss)) + SumLen(Tail(ss))

\* C2: every frame send_command or send_raw puts on the outbound channel is
\* at most 512 bytes long, has at most 510 payload bytes and ends with CR LF.
C2_FrameCap ==
    cop \in {"send_command", "send_raw"} =>
        \A i \in 1..Len(cout.frames) : FrameOK(cout.frames[i])

\* a send_command whose arguments exceed the cap was framed at exactly 512 bytes
C2_Witness ==
    /\ cop = "send_command"
    /\ SumLen(cin.line.args) > MaxPayload
    /\ Len(cout.frames) = 1
    /\ Len(cout.frames[1]) = MaxPayload + 2

NoCRLF(v) == ~Contains(v, CR) /\ ~Contains(v, LF)
SpaceArgs(l) == {i \in 1..Len(l.args) : Contains(l.args[i], SP)}

\* the lines the round-trip claim is about
RoundTripLine(l) ==
    /\ NoCRLF(l.prefix.raw) /\ NoCRLF(l.command.a) /\ NoCRLF(l.command.b)
    /\ \A i \in 1..Len(l.args) : NoCRLF(l.args[i])
    /\ Cardinality(SpaceArgs(l)) <= 1
    /\ ~is_ctcp(l.command) => \A i \in SpaceArgs(l) : i = Len(l.args)

\* C3: for every Line L without CR/LF and with at most one space-containing
\* argument (last for a non-CTCP command), Line::parse(L.to_raw()) is Some(L).
C3_RoundTrip ==
    (cop = "roundtrip" /\ RoundTripLine(cin.line)) => cout.res = SomeLine(cin.line)

\* C4: Line::parse returns Some(line) or None for every input and never fails.
C4_ParseTotal ==
    cop = "parse" => cout.res.tag \in {"Some", "None"}

\* Line::parse without its CTCP step: prefix, command token and arguments
PlainParse(v0) ==
    LET hasPrefix == StartsWith(v0, <<":">>)
        pidx == PositionElem(v0, SP)
        prefix == IF hasPrefix THEN SomeUser(User_parse(Slice(v0, 1, pidx)))
                  ELSE NoUser
        v1 == IF hasPrefix THEN SliceFrom(v0, pidx + 1) ELSE v0
        cidx == PositionElem(v1, SP)
        cmd == IF cidx = -1 THEN v1 ELSE SliceTo(v1, cidx)
        v2 == IF cidx = -1 THEN <<>> ELSE SliceFrom(v1, cidx + 1)
    IN IF (hasPrefix /\ pidx = -1) \/ cidx = 0 THEN NoLine
       ELSE IF Len(cmd) = 3 /\ \A i \in 1..Len(cmd) : cmd[i] \in DigitSet
       THEN SomeLine(Line(prefix, IRCCode(parse_bytes(cmd)), parse_args(v2)))
       ELSE IF \A i \in 1..Len(cmd) : cmd[i] \in Alpha
       THEN SomeLine(Line(prefix, IRCCmd(cmd), parse_args(v2)))
       ELSE NoLine

\* the CTCP line the claim describes for a plain PRIVMSG or NOTICE line l
CtcpOf(l) ==
    LET text0 == Last(l.args)
        text == IF Len(text0) > 1 /\ text0[Len(text0)] = SOH
                THEN SubSeq(text0, 2, Len(text0) - 1)
                ELSE SubSeq(text0, 2, Len(text0))
        spaces == {i \in 1..Len(text) : text[i] = SP}
        sp == IF spaces = {} THEN Len(text) + 1
              ELSE CHOOSE i \in spaces : \A j \in spaces : i <= j
        verb == SubSeq(text, 1, sp - 1)
        dest == l.args[1]
    IN Line(l.prefix,
            IF l.command = IRCCmd(bNOTICE) THEN IRCCTCPReply(verb, dest)
            ELSE IF verb = bACTION THEN IRCAction(dest)
            ELSE IRCCTCP(verb, dest),
            IF spaces = {} THEN <<>> ELSE <<SubSeq(text, sp + 1, Len(text))>>)

\* the last argument of a PRIVMSG or NOTICE line starts with 0x01
CtcpMarked(l) ==
    /\ l.command \in {IRCCmd(bPRIVMSG), IRCCmd(bNOTICE)}
    /\ l.args # <<>>
    /\ Len(Last(l.args)) > 0 /\ Last(l.args)[1] = SOH

\* C18: Line::parse gives the CTCP form exactly for a PRIVMSG or NOTICE
\* line with at least 2 arguments whose last argument starts with 0x01
\* (destination the first argument, ACTION / other verb / reply, arguments
\* the text after the verb's first space); every other line is returned as
\* the plain command with its arguments unchanged.
C18_CtcpDetection ==
    cop = "parse" =>
        LET q == PlainParse(cin.raw)
        IN IF q.tag = "Some" /\ CtcpMarked(q.line) /\ Len(q.line.args) >= 2
           THEN cout.res = SomeLine(CtcpOf(q.line))
           ELSE cout.res = q

\* a CTCP input: a PRIVMSG or NOTICE line of at least 2 arguments whose last
\* argument starts with 0x01
CtcpInput(v) ==
    LET q == PlainParse(v)
    IN q.tag = "Some" /\ CtcpMarked(q.line) /\ Len(q.line.args) >= 2

\* C19 (as stated): for every CTCP input v without the closing 0x01, parsing
\* v and parsing v followed by 0x01 give the same Line, and to_raw of that
\* Line is v followed by 0x01 in both cases.
C19_ClosingByte ==
    CtcpInput(cin.raw) =>
        /\ cop \in {"reserialize", "reserialize_closed"} =>
               cout.res.tag = "Some" /\ cout.bytes = cin.raw \o <<SOH>>
        /\ cop = "reserialize_closed" => cout.res = Line_parse(cin.raw)

\* a CTCP input in the form to_raw writes: exactly destination and text, the
\* text introduced by ':' and, past its first byte, not ending with 0x01
CanonicalCtcp(v) ==
    LET l == PlainParse(v).line
        pre == IF l.prefix.some THEN <<":">> \o l.prefix.raw \o <<SP>> ELSE <<>>
    IN /\ CtcpInput(v)
       /\ Len(l.args) = 2
       /\ ~(Len(l.args[2]) > 1 /\ l.args[2][Len(l.args[2])] = SOH)
       /\ v = pre \o l.command.a \o <<SP>> \o l.args[1] \o <<SP, ":">>
               \o l.args[2]

\* C19 (amended): the closing-byte round trip holds for CTCP inputs in the
\* form to_raw writes: parsing v and v followed by 0x01 give the same Line,
\* whose to_raw is v followed by 0x01.
C19_ClosingByteAmended ==
    CanonicalCtcp(cin.raw) =>
        /\ cop \in {"reserialize", "reserialize_closed"} =>
               cout.res.tag = "Some" /\ cout.bytes = cin.raw \o <<SOH>>
        /\ cop = "reserialize_closed" => cout.res = Line_parse(cin.raw)

C19_Witness ==
    /\ cop = "reserialize_closed" /\ CanonicalCtcp(cin.raw)
    /\ cin.raw[1] = ":"
    /\ cout.res.tag = "Some" /\ cout.res.line.command.tag = "IRCCTCP"
    /\ cout.bytes = cin.raw \o <<SOH>>

\* the command token of a rendered line: what follows the prefix, up to the
\* first space or line terminator
CommandToken(l, v) ==
    LET w == IF l.prefix.some THEN SliceFrom(v, Len(l.prefix.raw) + 2) ELSE v
        ends == {i \in 1..Len(w) : w[i] \in {SP, CR}}
    IN IF ends = {} THEN w
       ELSE SliceTo(w, (CHOOSE i \in ends : \A j \in ends : i <= j) - 1)

ThreeDigits(v) == Len(v) = 3 /\ \A i \in 1..3 : v[i] \in DigitSet

\* C5: IRCCode(n) is rendered as exactly 3 zero-padded decimal digits by
\* Line::to_raw and in the frame of send_command, for every n.
C5_ThreeDigits ==
    /\ (cop = "to_raw" /\ cin.line.command.tag = "IRCCode")
         => ThreeDigits(CommandToken(cin.line, cout.bytes))
    /\ (cop = "send_command" /\ cin.line.command.tag = "IRCCode")
         => ThreeDigits(CommandToken(Line(NoUser, cin.line.command, <<>>),
                                     cout.frames[1]))

\* C28: every frame the reader forwards is non-empty and does not end with
\* CR or LF; a line ending with CR LF gives what the same line ending with
\* LF alone gives; and a line with nothing but CR and LF bytes gives no
\* frame.
C28_ReaderFrames ==
    cop = "reader" =>
        /\ \A i \in DOMAIN cout.frames :
              /\ cout.frames[i] # <<>>
              /\ Last(cout.frames[i]) \notin {CR, LF}
        /\ EndsWith(cin.raw, <<CR, LF>>) =>
              cout.frames = reader_forward(SliceTo(cin.raw, Len(cin.raw) - 2)
                                           \o <<LF>>)
        /\ (\A i \in DOMAIN cin.raw : cin.raw[i] \in {CR, LF}) =>
              cout.frames = <<>>

\* the full rendering of a command and its arguments: the command as the
\* codec writes it, the arguments after single spaces, a ':' before the last
\* one if add_colon, and the closing 0x01 of a CTCP command
Rendering(cmd, args, add_colon) ==
    to_raw_command(cmd)
    \o Flatten([i \in 1..Len(args) |->
                  (IF i = Len(args) /\ add_colon THEN <<SP, ":">> ELSE <<SP>>)
                  \o args[i]])
    \o (IF is_ctcp(cmd) THEN <<SOH>> ELSE <<>>)

\* C29: the frame send_command enqueues is the first min(510, n) bytes of
\* the n-byte rendering of the command and arguments, followed by CR LF.
C29_PlainCut ==
    cop = "send_command" =>
        LET full == Rendering(cin.line.command, cin.line.args, cin.add_colon)
        IN cout.frames
             = <<SubSeq(full, 1, Min(MaxPayload, Len(full))) \o <<CR, LF>>>>

\* v cut to its first 510 bytes and terminated
CutFrame(v) == SubSeq(v, 1, Min(MaxPayload, Len(v))) \o <<CR, LF>>

Unterminated(v) ==
    IF EndsWith(v, <<CR, LF>>) THEN SubSeq(v, 1, Len(v) - 2)
    ELSE IF EndsWith(v, <<CR>>) \/ EndsWith(v, <<LF>>)
    THEN SubSeq(v, 1, Len(v) - 1)
    ELSE v

InputToken(v) ==
    LET w == IF v # <<>> /\ v[1] = ":"
             THEN SubSeq(v, (CHOOSE i \in 1..Len(v) : v[i] = SP /\
                                 \A j \in 1..(i - 1) : v[j] # SP) + 1, Len(v))
             ELSE v
        sps == {i \in 1..Len(w) : w[i] = SP}
    IN IF sps = {} THEN w
       ELSE SubSeq(w, 1, (CHOOSE i \in sps : \A j \in sps : i <= j) - 1)

UnterminatedPrefix(v) == v # <<>> /\ v[1] = ":" /\ \A i \in 1..Len(v) : v[i] # SP

NamedCommand(c, tok) ==
    \/ c = IRCCmd(tok)
    \/ tok = bPRIVMSG /\ c.tag \in {"IRCAction", "IRCCTCP"}
    \/ tok = bNOTICE /\ c.tag = "IRCCTCPReply"

\* C20: Line::parse returns a Line exactly when the command token matches
\* 3DIGIT | 1*ALPHA: 3 digits give the numeric command, a non-empty
\* alphabetic token a named command; an empty token, a token with other
\* bytes, or a ':' prefix with no following space gives no value.
C20_CommandGrammar ==
    cop = "parse" =>
        IF UnterminatedPrefix(cin.raw) THEN cout.res = NoLine
        ELSE LET tok == InputToken(cin.raw)
             IN IF ThreeDigits(tok)
                THEN /\ cout.res.tag = "Some"
                     /\ cout.res.line.command = IRCCode(parse_bytes(tok))
                ELSE IF tok # <<>> /\ \A i \in 1..Len(tok) : tok[i] \in Alpha
                THEN /\ cout.res.tag = "Some"
                     /\ NamedCommand(cout.res.line.command, tok)
                ELSE cout.res = NoLine

\* ------------------------------------------------------------------------
\* User operations on bounded inputs (src/lib.rs)
\* ------------------------------------------------------------------------
MaxRaw == 5
MaxPart == 2

\* the bytes identities are made of: two plain bytes and the delimiters
UserBytes == {"a", "b", "!", "@"}

UserStrings(n) == SeqsUpTo(UserBytes, n)
OptStrings(n) == {NoBytes} \cup {SomeBytes(s) : s \in UserStrings(n)}

UserInput(kind, raw, nick, user, host) ==
    [kind |-> kind, raw |-> raw, nick |-> nick, user |-> user, host |-> host]

InitUser ==
    /\ \/ \E r \in UserStrings(MaxRaw) :
            uin = UserInput("parse", r, <<>>, NoBytes, NoBytes)
       \/ \E n \in UserStrings(MaxPart), u, h \in OptStrings(MaxPart) :
            uin = UserInput("new", <<>>, n, u, h)
       \/ \E r \in UserStrings(MaxRaw), n \in UserStrings(MaxPart) :
            uin = UserInput("with_nick", r, n, NoBytes, NoBytes)
    /\ uout = OpenConn.user
    /\ uop = "init"
    /\ IdleCodec /\ IdleHandlers /\ IdleCollide /\ IdleSession

\* User::parse(raw)
DoUserParse ==
    /\ uop = "init" /\ uin.kind = "parse"
    /\ uout' = User_parse(uin.raw)
    /\ uop' = "parse"
    /\ UNCHANGED <<uin, codecVars, handVars, collVars, sessVars>>

\* User::new(u.nick(), u.user(), u.host()) for the identity u parsed from raw
DoUserRebuild ==
    /\ uop = "init" /\ uin.kind = "parse"
    /\ LET u == User_parse(uin.raw)
       IN uout' = User_new(User_nick(u), User_user(u), User_host(u))
    /\ uop' = "rebuild"
    /\ UNCHANGED <<uin, codecVars, handVars, collVars, sessVars>>

\* User::new(nick, user, host)
DoUserNew ==
    /\ uop = "init" /\ uin.kind = "new"
    /\ uout' = User_new(uin.nick, uin.user, uin.host)
    /\ uop' = "new"
    /\ UNCHANGED <<uin, codecVars, handVars, collVars, sessVars>>

\* u.with_nick(nick) for the identity u parsed from raw
DoWithNick ==
    /\ uop = "init" /\ uin.kind = "with_nick"
    /\ uout' = with_nick(User_parse(uin.raw), uin.nick)
    /\ uop' = "with_nick"
    /\ UNCHANGED <<uin, codecVars, handVars, collVars, sessVars>>

NextUser == DoUserParse \/ DoUserRebuild \/ DoUserNew \/ DoWithNick

SpecUser == InitUser /\ [][NextUser]_vars

\* ------------------------------------------------------------------------
\* Properties of the User operations
\* ------------------------------------------------------------------------
MinOf(S) == CHOOSE i \in S : \A j \in S : i <= j

\* the first '@' of v, and the first '!' of v if it comes before that '@'
\* (0: there is none)
FirstAt(v) == IF Positions(v, "@") = {} THEN 0 ELSE MinOf(Positions(v, "@"))
FirstBang(v) ==
    LET bangs == {i \in Positions(v, "!") : FirstAt(v) = 0 \/ i < FirstAt(v)}
    IN IF bangs = {} THEN 0 ELSE MinOf(bangs)

\* nick[!user][@host] as the claim splits it
SplitNick(v) ==
    IF FirstBang(v) # 0 THEN SubSeq(v, 1, FirstBang(v) - 1)
    ELSE IF FirstAt(v) # 0 THEN SubSeq(v, 1, FirstAt(v) - 1)
    ELSE v
SplitUser(v) ==
    IF FirstBang(v) = 0 THEN NoBytes
    ELSE SomeBytes(SubSeq(v, FirstBang(v) + 1,
                          IF FirstAt(v) # 0 THEN FirstAt(v) - 1 ELSE Len(v)))
SplitHost(v) ==
    IF FirstAt(v) = 0 THEN NoBytes
    ELSE SomeBytes(SubSeq(v, FirstAt(v) + 1, Len(v)))

\* identity u has the components the claim gives for raw v
SplitsAs(u, v) ==
    /\ User_raw(u) = v
    /\ User_nick(u) = SplitNick(v)
    /\ User_user(u) = SplitUser(v)
    /\ User_host(u) = SplitHost(v)

\* C22: User::parse(raw) keeps raw and splits it as nick[!user][@host] at
\* the first '@' and at the first '!' before it: nick is the text before
\* the first of the two, user the text from that '!' to the '@' (or the
\* end), host the text after the first '@'; a '!' after the first '@' is
\* part of the host.
C22_UserParse ==
    uop = "parse" => SplitsAs(uout, uin.raw)

\* a raw identity with a '!' only after its '@': no user, the '!' in the host
C22_Witness ==
    /\ uop = "parse"
    /\ uin.raw = <<"a", "@", "b", "!">>
    /\ User_nick(uout) = <<"a">> /\ User_user(uout) = NoBytes
    /\ User_host(uout) = SomeBytes(<<"b", "!">>)

\* the string nick[!user][@host]
Concatenated(nick, user, host) ==
    nick \o (IF user.some THEN <<"!">> \o user.v ELSE <<>>)
         \o (IF host.some THEN <<"@">> \o host.v ELSE <<>>)

\* User::new(nick, user, host) gave u
BuiltFrom(u, nick, user, host) ==
    /\ SplitsAs(u, Concatenated(nick, user, host))
    /\ (Positions(nick, "!") = {} /\ Positions(nick, "@") = {}
          /\ Positions(user.v, "@") = {})
         => /\ User_nick(u) = nick
            /\ User_user(u) = user
            /\ User_host(u) = host

\* C23: User::new(nick, user, host) is the parse of nick[!user][@host], and
\* with_nick(nick) that of nick with the receiver's user and host: with a
\* nick free of '!' and '@' and a user free of '@' the result's nick(),
\* user() and host() are the inputs, with a delimiter in the nick they are
\* what the split of the concatenation gives; and an identity rebuilt from
\* its own nick(), user() and host() has the same raw().
C23_UserNew ==
    /\ uop = "new" => BuiltFrom(uout, uin.nick, uin.user, uin.host)
    /\ uop = "with_nick" =>
          BuiltFrom(uout, uin.nick, SplitUser(uin.raw), SplitHost(uin.raw))
    /\ uop = "rebuild" => User_raw(uout) = uin.raw

\* with_nick with a '!' in the new nick: the old user moves behind it
C23_Witness ==
    /\ uop = "with_nick"
    /\ uin.raw = <<"a", "!", "b", "@", "a">> /\ uin.nick = <<"b", "!">>
    /\ User_raw(uout) = <<"b", "!", "!", "b", "@", "a">>
    /\ User_nick(uout) = <<"b">>
    /\ User_user(uout) = SomeBytes(<<"!", "b">>)
    /\ User_host(uout) = SomeBytes(<<"a">>)

\* ------------------------------------------------------------------------
\* handle_line on bounded connections and lines
\* ------------------------------------------------------------------------
NickPool == {bn, <<"a", "b", "_", "_">>, <<"_", "_", "_">>, <<"a", "_", "b">>,
             <<>>, <<"n", "!", "x">>}

\* connections handle_line can be called on: the channel handle is held and
\* the writer runs or has exited, or the handle was given up after a failed send
HandlerConns ==
    {c \in {ConnOf(wc, li, User_new(n, SomeBytes(<<"u">>), h), <<>>, po, <<>>) :
                wc \in BOOLEAN, li \in BOOLEAN, n \in NickPool \ {<<>>},
                h \in {NoBytes, SomeBytes(<<"h">>)}, po \in BOOLEAN} :
        c.write_chan \/ ~c.port}

HandlerCommands ==
    {IRCCode(1), IRCCode(2), IRCCode(433), IRCCode(432), IRCCode(436),
     IRCCode(437), IRCCmd(bPING), IRCCmd(bNICK), IRCCmd(bPRIVMSG)}

HandlerLines ==
    {Line(p, c, a) :
        p \in {NoUser} \cup {SomeUser(User_parse(n \o <<"!", "u", "@", "h">>)) :
                                n \in {bn, <<"a", "_", "b">>}},
        c \in HandlerCommands,
        a \in {<<>>} \cup {<<n>> : n \in NickPool}
               \cup {<<n, <<"a", SP, "b">>>> : n \in NickPool}}

InitHandlers ==
    /\ hc \in HandlerConns
    /\ hl \in HandlerLines
    /\ hr = hc
    /\ hop = "init"
    /\ hn = <<>>
    /\ IdleCodec /\ IdleUser /\ IdleCollide /\ IdleSession

DoHandleLine ==
    /\ hop = "init"
    /\ hr' = handle_line(hc, hl)
    /\ hop' = "handled"
    /\ UNCHANGED <<hc, hl, hn, codecVars, userVars, collVars, sessVars>>

\* the caller changes its nick on the connection as it stands
DoSetNick ==
    /\ hop = "init"
    /\ \E n \in NickPool :
          /\ hn' = n
          /\ hr' = set_nick(hc, n)
    /\ hop' = "set"
    /\ UNCHANGED <<hc, hl, codecVars, userVars, collVars, sessVars>>

\* a line from the server is dispatched after the set_nick call
DoHandleAfterSetNick ==
    /\ hop = "set"
    /\ hr' = handle_line(hr, hl)
    /\ hop' = "echoed"
    /\ UNCHANGED <<hc, hl, hn, codecVars, userVars, collVars, sessVars>>

NextHandlers == DoHandleLine \/ DoSetNick \/ DoHandleAfterSetNick

SpecHandlers == InitHandlers /\ [][NextHandlers]_vars

CollisionCodes == {IRCCode(433), IRCCode(432), IRCCode(436), IRCCode(437)}

\* the nick a collision numeric complains about
OffendingNick == IF hl.args # <<>> THEN hl.args[1] ELSE User_nick(hc.user)

HasNonUnderscore(n) == \E i \in 1..Len(n) : n[i] # "_"

\* n with its last byte other than '_' turned into '_'
Underscored(n) ==
    LET others == {i \in 1..Len(n) : n[i] # "_"}
        last == CHOOSE i \in others : \A j \in others : j <= i
    IN [i \in 1..Len(n) |-> IF i = last THEN "_" ELSE n[i]]

NickFrame(n) ==
    LET full == bNICK \o <<SP>> \o n
    IN SubSeq(full, 1, Min(Len(full), MaxPayload)) \o <<CR, LF>>
QuitFrame == bQUIT \o <<CR, LF>>

\* a collision numeric dispatched before login, outbound channel open
CollisionCase ==
    /\ hop = "handled"
    /\ ~hc.logged_in /\ hc.write_chan /\ hc.port
    /\ hl.command \in CollisionCodes

\* 433 naming exactly the current nick
NickInUseOfCurrent ==
    /\ hl.command = IRCCode(433)
    /\ hl.args # <<>>
    /\ hl.args[1] = User_nick(hc.user)

\* C6 as stated: each of 433/432/436/437 dispatched before login enqueues
\* exactly one NICK frame for the offending nick with its last non-underscore
\* byte replaced by '_', or exactly one QUIT frame if the nick is all '_'.
C6_Recovery ==
    CollisionCase =>
        hr.out = hc.out \o
            <<IF HasNonUnderscore(OffendingNick)
              THEN NickFrame(Underscored(OffendingNick))
              ELSE QuitFrame>>

\* C6 amended: the replacement rule holds for 432, 436, 437 and for a 433
\* that does not name the current nick; a 433 naming the current nick
\* enqueues exactly one NICK frame for that nick followed by one more '_'.
C6_RecoveryAmended ==
    CollisionCase =>
        hr.out = hc.out \o
            <<IF NickInUseOfCurrent THEN NickFrame(OffendingNick \o <<"_">>)
              ELSE IF HasNonUnderscore(OffendingNick)
              THEN NickFrame(Underscored(OffendingNick))
              ELSE QuitFrame>>

\* 432 for "ab__" produced the request for "a___"
C6_Witness ==
    /\ CollisionCase
    /\ hl.command = IRCCode(432)
    /\ OffendingNick = <<"a", "b", "_", "_">>
    /\ hr.out = <<bNICK \o <<SP, "a", "_", "_", "_", CR, LF>>>>

\* C13: a PING line dispatched while the outbound channel is open, logged
\* in or not, enqueues exactly one frame, a PONG, and parsing that frame
\* gives back the argument sequence of the PING line.
C13_PongEchoes ==
    hop = "handled" /\ hl.command = IRCCmd(bPING) /\ hc.write_chan /\ hc.port =>
        /\ Len(hr.out) = Len(hc.out) + 1
        /\ LET p == Line_parse(chomp(Last(hr.out)))
           IN /\ p.tag = "Some"
              /\ p.line.command = IRCCmd(bPONG)
              /\ p.line.args = hl.args

NoDelimiter(n) == \A i \in 1..Len(n) : n[i] \notin {"!", "@"}

\* a NICK line has been dispatched
NickCase == hop = "handled" /\ hl.command = IRCCmd(bNICK)

\* the line has an argument and a prefix whose nick is the current nick
OwnNick ==
    /\ hl.args # <<>>
    /\ hl.prefix.some
    /\ User_nick(User_parse(hl.prefix.raw)) = User_nick(hc.user)

\* C14 as stated: a NICK line makes args[0] the current nick exactly when
\* it is dispatched while logged in, has an argument and a prefix whose
\* nick is the current nick; any other NICK line leaves the User unchanged.
C14_NickTracking ==
    NickCase =>
        IF hc.logged_in /\ OwnNick THEN User_nick(hr.user) = hl.args[1]
        ELSE hr.user = hc.user

\* C14 amended: in that case the User becomes with_nick(args[0]), whose
\* nick is args[0], with user and host kept, when args[0] holds no '!' and
\* no '@'; any other NICK line leaves the User unchanged.
C14_NickTrackingAmended ==
    NickCase =>
        IF hc.logged_in /\ OwnNick
        THEN /\ hr.user = with_nick(hc.user, hl.args[1])
             /\ NoDelimiter(hl.args[1]) =>
                  /\ User_nick(hr.user) = hl.args[1]
                  /\ User_user(hr.user) = User_user(hc.user)
                  /\ User_host(hr.user) = User_host(hc.user)
        ELSE hr.user = hc.user

\* the client's own NICK line renamed it from "n" to "ab__"
C14_Witness ==
    /\ NickCase /\ hc.logged_in /\ OwnNick
    /\ User_nick(hc.user) = bn
    /\ hl.args[1] = <<"a", "b", "_", "_">>
    /\ User_nick(hr.user) = <<"a", "b", "_", "_">>

\* ------------------------------------------------------------------------
\* The nick-collision loop: a server that never welcomes the client and
\* answers every NICK request it receives with a collision numeric naming
\* the nick of that request.  The writer and the reader are folded into the
\* server: it takes frames off the outbound channel in order and its answers
\* arrive as raw lines that the event loop parses and dispatches.
\* ------------------------------------------------------------------------
CollideNicks == {bn, <<"a", "b">>, <<"_", "_">>, <<"n", "!", "x">>}

HandshakeConn(nick) ==
    send_command(
        send_command(ConnOf(TRUE, FALSE, User_new(nick, SomeBytes(<<"u">>), NoBytes),
                            <<>>, TRUE, <<>>),
                     IRCCmd(bNICK), <<nick>>, FALSE),
        IRCCmd(bUSER), <<<<"u">>, <<"8", SP, "*">>, <<"r">>>>, TRUE)

InitCollide ==
    /\ \E n \in CollideNicks : kc = [HandshakeConn(n) EXCEPT !.log = <<>>]
    /\ kin = <<>>
    /\ kquit = FALSE
    /\ IdleCodec /\ IdleUser /\ IdleHandlers /\ IdleSession

\* the server reads the next frame; a NICK request is answered with a
\* collision numeric whose first argument is the requested nick
ServerAnswer ==
    /\ ~kquit
    /\ kc.out # <<>>
    /\ \E req \in {Line_parse(chomp(Head(kc.out)))} :
          /\ kc' = [kc EXCEPT !.out = Tail(@)]
          /\ IF req.tag = "Some" /\ req.line.command = IRCCmd(bNICK)
                /\ req.line.args # <<>>
             THEN /\ \E code \in {<<"4", "3", "3">>, <<"4", "3", "2">>,
                                  <<"4", "3", "6">>, <<"4", "3", "7">>} :
                         kin' = Append(kin, code \o <<SP>> \o req.line.args[1])
                  /\ UNCHANGED kquit
             ELSE IF req.tag = "Some" /\ req.line.command = IRCCmd(bQUIT)
             THEN kquit' = TRUE /\ UNCHANGED kin
             ELSE UNCHANGED <<kin, kquit>>
    /\ UNCHANGED <<codecVars, userVars, handVars, sessVars>>

\* the event loop takes the next inbound line, parses and dispatches it
ClientDispatch ==
    /\ kin # <<>>
    /\ \E line \in {Line_parse(Head(kin))} :
          kc' = IF line.tag = "Some"
                THEN [handle_line(kc, line.line) EXCEPT !.log = <<>>]
                ELSE kc
    /\ kin' = Tail(kin)
    /\ UNCHANGED <<kquit, codecVars, userVars, handVars, sessVars>>

NextCollide == ServerAnswer \/ ClientDispatch

SpecCollide == InitCollide /\ [][NextCollide]_vars /\ WF_vars(ServerAnswer)
               /\ WF_vars(ClientDispatch)

\* C7: when the server never sends 001 and answers every NICK request with a
\* collision numeric naming the requested nick, the client eventually
\* enqueues QUIT (and so requests only finitely many nicks).
C7_Terminates == <>kquit

\* the retries went all the way to a nick that fills a frame before QUIT
C7_Witness ==
    /\ kquit
    /\ Len(User_nick(kc.user)) >= MaxPayload - 5
    /\ ~HasNonUnderscore(User_nick(kc.user))

\* ------------------------------------------------------------------------
\* The session: connect, Conn::run with its writer and reader tasks, the
\* caller's command channel and the callback (src/conn.rs)
\* ------------------------------------------------------------------------
MaxLines == 2
MaxCmds == 1

bUser == <<"u">>
bReal == <<"r">>
bm == <<"m">>

\* what the callback or a command does with the connection it is handed
ApiOps == {"none", "set_nick"}
CmdOps == {"quit", "set_nick"}

ApplyOp(c, op) ==
    IF op = "quit" THEN quit(c, <<>>)
    ELSE IF op = "set_nick" THEN set_nick(c, bm)
    ELSE c

\* the lines the server may send, as the reader gets them from read_until
InPool ==
    { <<"0", "0", "1", SP>> \o bm \o <<CR, LF>>,
      <<"0", "0", "1", SP>> \o bm \o <<"!", "x", LF>>,
      bPING \o <<SP, ":", "x", SP, "y", LF>>,
      <<"4", "3", "3", SP>> \o bn \o <<CR, LF>>,
      <<"f", "2", "3", LF>>,
      bNOTICE \o <<SP, SOH, "V", LF>> }

Ev(name, line) == [k |-> "event", v |-> [ev |-> name, line |-> line]]
Dispatched(line, before, after) ==
    [k |-> "dispatch", v |-> [line |-> line, before |-> before, after |-> after]]
Exec(op, phase) == [k |-> "exec", v |-> [op |-> op, phase |-> phase]]

\* the connection as the operations see it
Me == ConnOf(conn.write_chan, conn.logged_in, conn.user, writeQ, wpc # "done", log)

\* store the connection c back after an operation
Store(c) ==
    /\ conn' = [write_chan |-> c.write_chan, logged_in |-> c.logged_in,
                user |-> c.user]
    /\ writeQ' = c.out
    /\ log' = c.log

Logged(entry) == [Me EXCEPT !.log = Append(@, entry)]

InitSession ==
    /\ opts \in [host : {"Host"}, commands : BOOLEAN, nick : {bn}]
    /\ net = "none"
    /\ pc = "connect"
    /\ conn = [write_chan |-> FALSE, logged_in |-> FALSE,
               user |-> User_new(bn, SomeBytes(bUser), NoBytes)]
    /\ cur = NoLine.line
    /\ result = "Ok" /\ ret = "none" /\ log = <<>>
    /\ writeQ = <<>> /\ wpc = "off" /\ written = <<>>
    /\ readQ = <<>> /\ rpc = "off" /\ nread = 0
    /\ errQ = <<>>
    /\ cmdQ = <<>> /\ cmdSender = opts.commands /\ cmdPort = opts.commands
    /\ cmd_handle = FALSE /\ submitted = <<>> /\ procs = <<>>
    /\ IdleCodec /\ IdleUser /\ IdleHandlers /\ IdleCollide

otherVars == <<codecVars, userVars, handVars, collVars>>

\* what get_host_addresses and TcpStream::connect may give
ConnectOutcomes == {"resolve_err", "no_addr", "connect_err", "open"}

\* what connect returns at once for an outcome ("none": it goes on)
ConnectReturn(o) ==
    IF o = "resolve_err" THEN "ErrResolve"
    ELSE IF o = "connect_err" THEN "ErrConnect"
    ELSE "none"

\* where connect goes next, were a failure not to end it
ConnectNext_session(o) ==
    IF o = "no_addr" THEN "failed" ELSE "cb_connected"

\* where connect goes next: an empty address list fails the task
ConnectNext(o) ==
    IF o = "open" THEN "cb_connected"
    ELSE IF o = "no_addr" THEN "failed"
    ELSE "done"

\* connect: resolve the host, open the stream, build the Conn
Connect ==
    /\ pc = "connect"
    /\ \E o \in ConnectOutcomes :
         /\ net' = o
         /\ ret' = ConnectReturn(o)
         /\ pc' = ConnectNext(o)
         /\ cmdPort' = (cmdPort /\ o = "open")
    /\ conn' = [write_chan |-> FALSE, logged_in |-> FALSE,
                user |-> User_new(opts.nick, SomeBytes(bUser), NoBytes)]
    /\ UNCHANGED <<opts, cur, result, log, writerVars, readerVars, errQ,
                   cmdQ, cmdSender, cmd_handle, submitted, procs, otherVars>>

\* cb(&mut conn, Connected)
CbConnected ==
    /\ pc = "cb_connected"
    /\ \E op \in ApiOps : Store(ApplyOp(Logged(Ev("Connected", NoLine.line)), op))
    /\ pc' = "run"
    /\ UNCHANGED <<opts, net, cur, result, ret, wpc, written, readerVars, errQ,
                   cmdVars, otherVars>>

\* Conn::run: create the channels, spawn the two tasks, send NICK
RunStart ==
    /\ pc = "run"
    /\ Store(send_command([Me EXCEPT !.write_chan = TRUE, !.out = <<>>],
                          IRCCmd(bNICK), <<opts.nick>>, FALSE))
    /\ wpc' = "recv" /\ rpc' = "read"
    /\ cmd_handle' = opts.commands
    /\ pc' = "send_user"
    /\ UNCHANGED <<opts, net, cur, result, ret, written, readQ, nread, errQ,
                   cmdQ, cmdSender, cmdPort, submitted, procs, otherVars>>

\* Conn::run going on without sending USER
SendUser_skip ==
    /\ pc = "send_user"
    /\ pc' = "wait"
    /\ UNCHANGED <<opts, net, conn, cur, result, ret, log, writerVars, readerVars,
                   errQ, cmdVars, otherVars>>

\* Conn::run: send USER
SendUser ==
    /\ pc = "send_user"
    /\ Store(send_command(Me, IRCCmd(bUSER), <<bUser, <<"8", SP, "*">>, bReal>>, TRUE))
    /\ pc' = "wait"
    /\ UNCHANGED <<opts, net, cur, result, ret, wpc, written, readerVars, errQ,
                   cmdVars, otherVars>>

ErrPortDisconnected == errQ = <<>> /\ wpc = "done" /\ rpc = "done"
CmdPortDisconnected == cmdQ = <<>> /\ ~cmdSender
ReadPortDisconnected == readQ = <<>> /\ rpc = "done"

\* select.wait() returns when one of the added ports has data or is closed
SelectReady ==
    \/ errQ # <<>> \/ ErrPortDisconnected
    \/ cmd_handle /\ (cmdQ # <<>> \/ CmdPortDisconnected)
    \/ readQ # <<>> \/ ReadPortDisconnected

\* select.wait(), then err_port.try_recv() at the top of a pass
CheckErr ==
    /\ pc = "wait"
    /\ SelectReady
    /\ IF errQ # <<>>
       THEN result' = Head(errQ) /\ errQ' = Tail(errQ) /\ pc' = "final"
       ELSE /\ pc' = IF ErrPortDisconnected THEN "final" ELSE "chk_cmd"
            /\ UNCHANGED <<result, errQ>>
    /\ UNCHANGED <<opts, net, conn, cur, ret, log, writerVars, readerVars, cmdVars,
                   otherVars>>

\* commands.try_recv() in the loop
CheckCmd ==
    /\ pc = "chk_cmd"
    /\ IF ~opts.commands
       THEN pc' = "chk_read"
            /\ UNCHANGED <<conn, log, writeQ, cmdQ, cmd_handle>>
       ELSE IF cmdQ # <<>>
       THEN /\ Store(ApplyOp(Logged(Exec(Head(cmdQ), "loop")), Head(cmdQ)))
            /\ cmdQ' = Tail(cmdQ)
            /\ pc' = "chk_read"
            /\ UNCHANGED cmd_handle
       ELSE IF CmdPortDisconnected
       THEN \* cmd_handle.as_mut().unwrap() fails once the handle is gone
            /\ pc' = IF cmd_handle THEN "chk_read" ELSE "failed"
            /\ cmd_handle' = FALSE
            /\ UNCHANGED <<conn, log, writeQ, cmdQ>>
       ELSE pc' = "chk_read"
            /\ UNCHANGED <<conn, log, writeQ, cmdQ, cmd_handle>>
    /\ UNCHANGED <<opts, net, cur, result, ret, wpc, written, readerVars, errQ,
                   cmdSender, cmdPort, submitted, procs, otherVars>>

\* after handle_line: the callback only if logged_in, always
AfterDispatch_always(c) == "cb_line"

\* after handle_line: the line that logged in is not handed to the callback
AfterDispatch_later(c) == IF conn.logged_in THEN "cb_line" ELSE "wait"

\* after handle_line: the callback gets LineReceived only if logged_in
AfterDispatch(c) == IF c.logged_in THEN "cb_line" ELSE "wait"

\* read_port.try_recv(), Line::parse, handle_line
CheckRead ==
    /\ pc = "chk_read"
    /\ IF readQ = <<>>
       THEN /\ pc' = IF rpc = "done" THEN "final" ELSE "wait"
            /\ UNCHANGED <<conn, cur, log, writeQ, readQ>>
       ELSE /\ readQ' = Tail(readQ)
            /\ \E line \in {Line_parse(Head(readQ))} :
                 IF line.tag = "None"
                 THEN pc' = "wait" /\ UNCHANGED <<conn, cur, log, writeQ>>
                 ELSE IF line.tag = "Fail"
                 THEN pc' = "failed" /\ UNCHANGED <<conn, cur, log, writeQ>>
                 ELSE \E c \in {handle_line(Me, line.line)} :
                        /\ Store([c EXCEPT !.log =
                                    Append(log, Dispatched(line.line, conn.logged_in,
                                                           c.logged_in))
                                    \o SubSeq(c.log, Len(log) + 1, Len(c.log))])
                        /\ cur' = line.line
                        /\ pc' = AfterDispatch(c)
    /\ UNCHANGED <<opts, net, result, ret, wpc, written, rpc, nread, errQ,
                   cmdVars, otherVars>>

\* cb(self, LineReceived(line))
CbLineReceived ==
    /\ pc = "cb_line"
    /\ \E op \in ApiOps : Store(ApplyOp(Logged(Ev("LineReceived", cur)), op))
    /\ pc' = "wait"
    /\ UNCHANGED <<opts, net, cur, result, ret, wpc, written, readerVars, errQ,
                   cmdVars, otherVars>>

\* after the loop: check the error port one more time, then throw the
\* queued commands away
FinalCheckAndDrain_discard ==
    /\ pc = "final"
    /\ IF result = "Ok" /\ errQ # <<>>
       THEN result' = Head(errQ) /\ errQ' = Tail(errQ)
       ELSE UNCHANGED <<result, errQ>>
    /\ procs' = <<>>
    /\ cmdQ' = <<>>
    /\ pc' = "close"
    /\ UNCHANGED <<opts, net, conn, cur, ret, log, writerVars, readerVars, cmdSender,
                   cmdPort, cmd_handle, submitted, otherVars>>

\* after the loop: check the error port one more time, then drain the
\* commands port into procs
FinalCheckAndDrain ==
    /\ pc = "final"
    /\ IF result = "Ok" /\ errQ # <<>>
       THEN result' = Head(errQ) /\ errQ' = Tail(errQ)
       ELSE UNCHANGED <<result, errQ>>
    /\ procs' = IF opts.commands THEN cmdQ ELSE <<>>
    /\ cmdQ' = <<>>
    /\ pc' = "close"
    /\ UNCHANGED <<opts, net, conn, cur, ret, log, writerVars, readerVars, cmdSender,
                   cmdPort, cmd_handle, submitted, otherVars>>

\* the commands port goes out of scope, the outbound handle is kept
CloseChannels_keep ==
    /\ pc = "close"
    /\ cmdPort' = FALSE /\ cmd_handle' = FALSE
    /\ pc' = "procs"
    /\ UNCHANGED <<opts, net, conn, cur, result, ret, log, writerVars, readerVars,
                   errQ, cmdQ, cmdSender, submitted, procs, otherVars>>

\* the commands port goes out of scope; self.write_chan = None
CloseChannels ==
    /\ pc = "close"
    /\ cmdPort' = FALSE /\ cmd_handle' = FALSE
    /\ conn' = [conn EXCEPT !.write_chan = FALSE]
    /\ pc' = "procs"
    /\ UNCHANGED <<opts, net, cur, result, ret, log, writerVars, readerVars, errQ,
                   cmdQ, cmdSender, submitted, procs, otherVars>>

\* run one of the buffered procs
RunProc ==
    /\ pc = "procs" /\ procs # <<>>
    /\ Store(ApplyOp(Logged(Exec(Head(procs), "shutdown")), Head(procs)))
    /\ procs' = Tail(procs)
    /\ UNCHANGED <<opts, net, pc, cur, result, ret, wpc, written, readerVars,
                   errQ, cmdQ, cmdSender, cmdPort, cmd_handle, submitted, otherVars>>

\* Conn::run returns and connect returns at once, without the callback
CbDisconnected_silent ==
    /\ pc = "procs" /\ procs = <<>>
    /\ ret' = IF result = "Ok" THEN "Ok" ELSE "ErrIO"
    /\ pc' = "done"
    /\ UNCHANGED <<opts, net, conn, cur, result, log, writerVars, readerVars, errQ,
                   cmdVars, otherVars>>

\* Conn::run returns its result and drops the read and error ports;
\* cb(&mut conn, Disconnected), then connect returns
CbDisconnected ==
    /\ pc = "procs" /\ procs = <<>>
    /\ \E op \in ApiOps : Store(ApplyOp(Logged(Ev("Disconnected", NoLine.line)), op))
    /\ ret' = IF result = "Ok" THEN "Ok" ELSE "ErrIO"
    /\ pc' = "done"
    /\ UNCHANGED <<opts, net, cur, result, wpc, written, readerVars, errQ,
                   cmdVars, otherVars>>

\* the ports of Conn::run exist until it returns or fails
PortsAlive == pc \notin {"done", "failed"}
WriteChanClosed == ~conn.write_chan \/ pc = "failed"

\* writer taking the newest frame of the channel instead of the oldest
WriterWriteOk_newest ==
    /\ wpc = "recv" /\ writeQ # <<>>
    /\ writeQ' = Front(writeQ)
    /\ written' = Append(written, Last(writeQ))
    /\ UNCHANGED <<loopVars, wpc, readerVars, errQ, cmdVars, otherVars>>

\* writer: recv_opt() returns a frame; write and flush succeed
WriterWriteOk ==
    /\ wpc = "recv" /\ writeQ # <<>>
    /\ writeQ' = Tail(writeQ)
    /\ written' = Append(written, Head(writeQ))
    /\ UNCHANGED <<loopVars, wpc, readerVars, errQ, cmdVars, otherVars>>

\* writer: recv_opt() returns a frame; the write fails with EndOfFile
WriterWriteEof ==
    /\ wpc = "recv" /\ writeQ # <<>>
    /\ writeQ' = Tail(writeQ)
    /\ wpc' = "done"
    /\ UNCHANGED <<loopVars, written, readerVars, errQ, cmdVars, otherVars>>

\* writer: recv_opt() returns a frame; the write fails with another error,
\* which is sent on err_chan
WriterWriteErr ==
    /\ wpc = "recv" /\ writeQ # <<>>
    /\ writeQ' = Tail(writeQ)
    /\ wpc' = "done"
    /\ IF PortsAlive
       THEN errQ' = Append(errQ, "ErrWrite")
       ELSE UNCHANGED errQ
    /\ UNCHANGED <<loopVars, written, readerVars, cmdVars, otherVars>>

\* writer leaving as soon as the channel is closed, frames still queued
WriterExit_dropping ==
    /\ wpc = "recv" /\ WriteChanClosed
    /\ wpc' = "done"
    /\ UNCHANGED <<loopVars, writeQ, written, readerVars, errQ, cmdVars, otherVars>>

\* writer: recv_opt() returns None, the channel is closed and empty
WriterExit ==
    /\ wpc = "recv" /\ writeQ = <<>> /\ WriteChanClosed
    /\ wpc' = "done"
    /\ UNCHANGED <<loopVars, writeQ, written, readerVars, errQ, cmdVars, otherVars>>

\* one pass of the writer task's loop
WriterStep == WriterWriteOk \/ WriterWriteEof \/ WriterWriteErr \/ WriterExit

\* reader: read_until returns a line, which is chomped and forwarded
ReaderRead ==
    /\ rpc = "read" /\ nread < MaxLines
    /\ nread' = nread + 1
    /\ \E raw \in InPool :
         LET r == chomp_owned(raw)
         IN IF ~r.ok THEN rpc' = "done" /\ UNCHANGED readQ
            ELSE IF Len(r.line) > 0
            THEN IF PortsAlive
                 THEN readQ' = Append(readQ, r.line) /\ UNCHANGED rpc
                 ELSE rpc' = "done" /\ UNCHANGED readQ
            ELSE UNCHANGED <<readQ, rpc>>
    /\ UNCHANGED <<loopVars, writerVars, errQ, cmdVars, otherVars>>

\* reader: read_until fails with EndOfFile
ReaderEof ==
    /\ rpc = "read"
    /\ rpc' = "done"
    /\ UNCHANGED <<loopVars, writerVars, readQ, nread, errQ, cmdVars, otherVars>>

\* reader: read_until fails with another error, which is sent on err_chan
ReaderErr ==
    /\ rpc = "read"
    /\ rpc' = "done"
    /\ IF PortsAlive
       THEN errQ' = Append(errQ, "ErrRead")
       ELSE UNCHANGED errQ
    /\ UNCHANGED <<loopVars, writerVars, readQ, nread, cmdVars, otherVars>>

\* the caller running the proc itself instead of sending it
Submit_direct ==
    /\ opts.commands /\ cmdSender /\ cmdPort /\ Len(submitted) < MaxCmds
    /\ \E op \in CmdOps :
         /\ Store(ApplyOp(Logged(Exec(op, "loop")), op))
         /\ submitted' = Append(submitted, op)
    /\ UNCHANGED <<opts, net, pc, cur, result, ret, wpc, written, readerVars,
                   errQ, cmdQ, cmdSender, cmdPort, cmd_handle, procs, otherVars>>

\* the caller sends a proc on the commands channel
Submit ==
    /\ opts.commands /\ cmdSender /\ cmdPort /\ Len(submitted) < MaxCmds
    /\ \E op \in CmdOps : cmdQ' = Append(cmdQ, op) /\ submitted' = Append(submitted, op)
    /\ UNCHANGED <<loopVars, writerVars, readerVars, errQ, cmdSender, cmdPort,
                   cmd_handle, procs, otherVars>>

\* the caller drops the sending end of the commands channel
DropSender ==
    /\ cmdSender /\ cmdPort
    /\ cmdSender' = FALSE
    /\ UNCHANGED <<loopVars, writerVars, readerVars, errQ, cmdQ, cmdPort,
                   cmd_handle, submitted, procs, otherVars>>

Next ==
    \/ Connect \/ CbConnected \/ RunStart \/ SendUser
    \/ CheckErr \/ CheckCmd \/ CheckRead \/ CbLineReceived
    \/ FinalCheckAndDrain \/ CloseChannels \/ RunProc \/ CbDisconnected
    \/ WriterWriteOk \/ WriterWriteEof \/ WriterWriteErr \/ WriterExit
    \/ ReaderRead \/ ReaderEof \/ ReaderErr
    \/ Submit \/ DropSender

Spec == InitSession /\ [][Next]_vars

\* the steps of the task running connect and Conn::run
LoopNext ==
    \/ Connect \/ CbConnected \/ RunStart \/ SendUser
    \/ CheckErr \/ CheckCmd \/ CheckRead \/ CbLineReceived
    \/ FinalCheckAndDrain \/ CloseChannels \/ RunProc \/ CbDisconnected

----------------------------------------------------------------------------
\* Properties of the session

IsEvent(i, name) == log[i].k = "event" /\ log[i].v.ev = name
IsDispatch(i) == log[i].k = "dispatch"
IsExec(i, phase) == log[i].k = "exec" /\ log[i].v.phase = phase

\* entry j is the dispatch that entry i follows
DispatchOf(j, i) ==
    /\ j < i /\ IsDispatch(j)
    /\ \A m \in (j + 1)..(i - 1) : ~IsDispatch(m)

\* C1: the callback gets no LineReceived before the welcome reply (001)
\* has been processed: while logged_in is false no LineReceived has been
\* delivered, every LineReceived comes after the dispatch of a 001 line,
\* and it is the line of the latest dispatch, which left logged_in true;
\* so a line whose dispatch leaves logged_in false (a PING, a 433) is
\* handled and never delivered.
C1_NoLineBeforeWelcome ==
    \A i \in DOMAIN log :
        IsEvent(i, "LineReceived") =>
            /\ conn.logged_in
            /\ \E j \in 1..(i - 1) :
                 IsDispatch(j) /\ log[j].v.line.command = IRCCode(1)
            /\ \E j \in 1..(i - 1) :
                 /\ DispatchOf(j, i)
                 /\ log[j].v.line = log[i].v.line
                 /\ log[j].v.after

\* a 433 or a PING was dispatched before login and answered, not delivered;
\* then 001 was dispatched and delivered
C1_Witness ==
    \E i, j, k \in DOMAIN log :
        /\ i + 1 < j /\ j < k
        /\ IsDispatch(i) /\ ~log[i].v.before /\ ~log[i].v.after
        /\ log[i + 1].k = "enq"
        /\ IsDispatch(j) /\ log[j].v.line.command = IRCCode(1) /\ ~log[j].v.before
        /\ IsEvent(k, "LineReceived") /\ log[k].v.line = log[j].v.line

\* the commands executed, in order
ExecOps == [i \in DOMAIN SelectSeq(log, LAMBDA e : e.k = "exec") |->
               SelectSeq(log, LAMBDA e : e.k = "exec")[i].v.op]

\* C8 as stated: no command is executed once the loop has ended
C8_QueuedNeverExecuted ==
    \A i \in DOMAIN log : log[i].k = "exec" => log[i].v.phase = "loop"

\* C8: once shutdown begins the queued commands are taken off the command
\* channel, the channel is closed and the outbound handle dropped, and then
\* those commands are executed in order on the closed connection, where
\* their sends enqueue nothing; only commands sent after the drain are
\* never executed.
C8_DrainedRunAfterClose ==
    /\ pc \in {"procs", "done"} => ~cmdPort /\ ~conn.write_chan
    /\ \A i \in DOMAIN log :
         IsExec(i, "shutdown") =>
             /\ ~cmdPort /\ ~conn.write_chan
             /\ \A j \in DOMAIN log : j > i => log[j].k # "enq"
    /\ pc = "done" /\ net = "open" => procs = <<>> /\ submitted = ExecOps \o cmdQ

\* a command queued at shutdown has been executed after the close
C8_Witness ==
    /\ pc = "done"
    /\ \E i \in DOMAIN log : IsExec(i, "shutdown")

\* C9: a session that a worker's non-EOF error hit does not return Ok:
\* when connect has returned Ok no error is left unread on the error port
C9_ErrorNeverLost ==
    pc = "done" /\ ret = "Ok" => errQ = <<>>

\* C10: when resolving fails connect returns ErrResolve and when
\* connecting fails it returns ErrConnect, and then no event has been
\* delivered, no task started and nothing sent or received.
C10_NoSessionOnFailure ==
    /\ net = "resolve_err" => ret = "ErrResolve"
    /\ net = "connect_err" => ret = "ErrConnect"
    /\ net \in {"resolve_err", "connect_err"} \/ ret \in {"ErrResolve", "ErrConnect"} =>
         /\ log = <<>>
         /\ wpc = "off" /\ rpc = "off"
         /\ writeQ = <<>> /\ written = <<>> /\ readQ = <<>> /\ nread = 0
         /\ ~conn.write_chan /\ ~conn.logged_in

\* connecting failed although the caller had a command queued
C10_Witness ==
    /\ net = "connect_err" /\ ret = "ErrConnect"
    /\ submitted # <<>>

EventIdx(name) == {i \in DOMAIN log : IsEvent(i, name)}

DispatchStep == pc = "chk_read" /\ Len(log') > Len(log)

\* the nick becomes args[0] of the line just dispatched, user and host stay
AdoptsNick ==
    /\ User_nick(conn'.user) = cur'.args[1]
    /\ User_user(conn'.user) = User_user(conn.user)
    /\ User_host(conn'.user) = User_host(conn.user)

\* C12 as stated: logged_in starts false, only the dispatch of 001 sets it,
\* nothing clears it, and a 001 with a first argument makes args[0] the
\* current nick and keeps the user and host parts.
C12_Login ==
    /\ pc = "connect" => ~conn.logged_in
    /\ [][/\ conn.logged_in => conn'.logged_in
          /\ ~conn.logged_in /\ conn'.logged_in =>
               /\ DispatchStep /\ cur'.command = IRCCode(1)
               /\ IF cur'.args # <<>> THEN AdoptsNick
                  ELSE conn'.user = conn.user]_vars

\* C12 amended: as above, but args[0] becomes the current nick with user
\* and host kept when args[0] holds no '!' and no '@'; otherwise the
\* identity is with_nick(args[0]), the re-parse of args[0]!user@host.
C12_LoginAmended ==
    /\ pc = "connect" => ~conn.logged_in
    /\ [][/\ conn.logged_in => conn'.logged_in
          /\ ~conn.logged_in /\ conn'.logged_in =>
               /\ DispatchStep /\ cur'.command = IRCCode(1)
               /\ IF cur'.args = <<>> THEN conn'.user = conn.user
                  ELSE /\ conn'.user = with_nick(conn.user, cur'.args[1])
                       /\ NoDelimiter(cur'.args[1]) => AdoptsNick]_vars

\* logged in by "001 m": the nick is now m, the user part still u
C12_Witness ==
    /\ conn.logged_in
    /\ cur.command = IRCCode(1) /\ cur.args = <<bm>>
    /\ User_nick(conn.user) = bm
    /\ User_user(conn.user) = SomeBytes(bUser)

\* the frames enqueued on the outbound channel, in order
Enqueued == [i \in DOMAIN SelectSeq(log, LAMBDA x : x.k = "enq") |->
                SelectSeq(log, LAMBDA x : x.k = "enq")[i].v]

\* C15: the frames the writer has written are, in order, the first frames
\* enqueued; while the writer runs, the written frames followed by the
\* frames still on the channel are exactly the frames enqueued.
C15_WriteOrder ==
    /\ Len(written) <= Len(Enqueued)
    /\ written = SubSeq(Enqueued, 1, Len(written))
    /\ wpc = "recv" => written \o writeQ = Enqueued

\* NICK, USER and a third frame were written while a fourth waits
C15_Witness ==
    /\ Len(written) >= 3
    /\ writeQ # <<>>
    /\ written[1] # written[2] /\ written[2] # written[3]

\* the loop of Conn::run has been left
PostLoop == pc \in {"final", "close", "procs", "done"}

\* what each sending call would make of connection c
Calls(c) ==
    { send_command(c, IRCCmd(bPING), <<bm>>, FALSE), send_raw(c, bPING),
      quit(c, <<>>), quit(c, bm), set_nick(c, bm), join(c, bChan, <<>>),
      part(c, bChan, bm), privmsg(c, bChan, bm) }

\* C16: once the loop has been left no step enqueues a frame or fails, and
\* from the moment the drained commands run, through the Disconnected
\* callback and after, the outbound handle is gone and each of
\* send_command, send_raw, quit, set_nick, join, part and privmsg leaves
\* the outbound channel as it is.
C16_NoEnqueueAfterShutdown ==
    /\ [](pc \in {"procs", "done"} =>
            /\ ~conn.write_chan
            /\ \A c \in Calls(Me) :
                 c.out = writeQ /\ c.log = log /\ ~c.write_chan)
    /\ [][PostLoop => Enqueued' = Enqueued /\ pc' # "failed"]_vars

\* a drained quit ran while the writer was still able to take frames
C16_Witness ==
    /\ pc = "done" /\ wpc = "recv"
    /\ \E i \in DOMAIN log : IsExec(i, "shutdown") /\ log[i].v.op = "quit"

UserFrame == bUSER \o <<SP>> \o bUser \o <<SP, "8", SP, "*", SP, ":">> \o bReal
             \o <<CR, LF>>

\* C17: the first frame enqueued in a session is NICK <nick> and the second
\* is USER <user> 8 * :<real>; both come right after the Connected event,
\* before any line is dispatched or command run, and logged_in is false
\* until they have been sent.
C17_HandshakeFirst ==
    /\ Len(Enqueued) >= 1 => log[2].k = "enq" /\ log[2].v = NickFrame(opts.nick)
    /\ Len(Enqueued) >= 2 => log[3].k = "enq" /\ log[3].v = UserFrame
    /\ pc \in {"connect", "cb_connected", "run", "send_user"} => ~conn.logged_in

\* the Connected callback called set_nick, and still NICK n and USER are
\* the only frames when the loop starts
C17_Witness ==
    /\ pc = "wait" /\ nread = 0 /\ submitted = <<>>
    /\ User_nick(conn.user) = bm
    /\ Enqueued = <<NickFrame(bn), UserFrame>>

\* a step of the task that runs connect and Conn::run: the writer, the
\* reader and the caller do not move in it (the two tasks are spawned in it
\* when Conn::run starts)
LoopTaskStep ==
    /\ pc' # pc \/ procs' # procs
    /\ <<written, nread, submitted, cmdSender>>'
         = <<written, nread, submitted, cmdSender>>
    /\ pc # "run" => wpc' = wpc /\ rpc' = rpc

\* C21: the connection state (logged_in, the User, the outbound handle) and
\* the history change only in steps of the event-loop task, never in a step
\* of the writer, the reader or the caller; and a command runs to completion
\* in one such step, at the command check of a pass or among the drained
\* procs, in which nothing happens but that command and its own sends: no
\* dispatch, no callback, no other command.
C21_CommandsExclusive ==
    [][ /\ (conn' # conn \/ log' # log \/ cur' # cur) => LoopTaskStep
        /\ (Len(log') > Len(log) /\ log'[Len(log) + 1].k = "exec") =>
              /\ LoopTaskStep
              /\ pc \in {"chk_cmd", "procs"}
              /\ SubSeq(log', 1, Len(log)) = log
              /\ \A i \in (Len(log) + 2)..Len(log') : log'[i].k = "enq"
              /\ cur' = cur /\ conn'.logged_in = conn.logged_in
      ]_vars

\* a set_nick command ran in the loop between the dispatch of two lines,
\* while writer and reader were running
C21_Witness ==
    /\ wpc = "recv" /\ rpc = "read"
    /\ \E i \in DOMAIN log :
         /\ IsExec(i, "loop") /\ log[i].v.op = "set_nick"
         /\ i < Len(log) /\ log[i + 1].k = "enq"
         /\ \E j \in 1..(i - 1) : IsDispatch(j)
         /\ \E j \in (i + 1)..Len(log) : IsDispatch(j)

\* the lines whose dispatch left logged_in true, and the lines handed to the
\* callback, both in order
LoggedInDispatches ==
    LET es == SelectSeq(log, LAMBDA x : x.k = "dispatch")
        ds == SelectSeq(es, LAMBDA x : x.v.after)
    IN [i \in 1..Len(ds) |-> ds[i].v.line]
Delivered ==
    LET es == SelectSeq(log, LAMBDA x : x.k = "event")
        ls == SelectSeq(es, LAMBDA x : x.v.ev = "LineReceived")
    IN [i \in 1..Len(ls) |-> ls[i].v.line]

\* C24: the lines delivered as LineReceived are, in order, the line whose
\* dispatch set logged_in, a numeric 001, and every line dispatched after
\* it; only the line dispatched last may still be on its way to the
\* callback.
C24_WelcomeDelivered ==
    /\ IF pc = "cb_line"
       THEN LoggedInDispatches = Append(Delivered, cur)
       ELSE Delivered = LoggedInDispatches
    /\ Delivered # <<>> => Delivered[1].command = IRCCode(1)
    /\ \A i, j \in DOMAIN log :
         (i < j /\ IsDispatch(i) /\ IsDispatch(j) /\ log[i].v.after)
            => log[j].v.before /\ log[j].v.after
    /\ \A i \in DOMAIN log :
         (IsDispatch(i) /\ ~log[i].v.before /\ log[i].v.after)
            => log[i].v.line.command = IRCCode(1)

\* the 001 line and the PING after it were both delivered, in that order
C24_Witness ==
    /\ Len(Delivered) = 2
    /\ Delivered[1].command = IRCCode(1)
    /\ Delivered[2].command = IRCCmd(bPING)
    /\ LoggedInDispatches = Delivered

\* the reader has reached the end of the stream and no I/O error has been
\* reported
CleanEof == net = "open" /\ rpc = "done" /\ errQ = <<>> /\ result = "Ok"

\* C25: once the reader has reached the end of the stream with no I/O error
\* reported, the task running connect can always take its next step until
\* connect has returned, and then Disconnected has been delivered and the
\* value returned is Ok(()).
C25_CleanEof ==
    CleanEof =>
        /\ pc = "done" \/ ENABLED LoopNext
        /\ pc = "done" =>
              /\ ret = "Ok"
              /\ \E i \in DOMAIN log : IsEvent(i, "Disconnected")

\* C26: in a session that ends with no I/O error reported, no frame the
\* reader forwarded is left undispatched: when Disconnected has been
\* delivered and connect has returned Ok(()), the inbound channel is empty.
C26_NoFrameLost ==
    (pc = "done" /\ ret = "Ok" /\ errQ = <<>>) => readQ = <<>>

\* C27: after the caller has dropped the sending end of the commands
\* channel, the command check of a pass never fails the task: the loop goes
\* on to the inbound channel.
C27_SurvivesClosedCommands ==
    [][(pc = "chk_cmd" /\ opts.commands /\ ~cmdSender)
         => pc' \in {"chk_cmd", "chk_read"}]_vars

\* ------------------------------------------------------------------------
\* set_nick followed by the server's answer
\* ------------------------------------------------------------------------

\* set_nick(hn) has been called on a connection whose outbound channel is open
SetNickOpen == hop \in {"set", "echoed"} /\ hc.write_chan /\ hc.port

\* C31: set_nick(n) on an open outbound channel enqueues the frame "NICK n";
\* before login it replaces the current User with with_nick(n) in the same
\* call, after login it leaves the User as it was, and a later dispatch
\* changes the User of a logged-in connection only for a NICK line with an
\* argument whose prefix carries the client's own nick.
C31_SetNick ==
    /\ hop = "set" =>
         /\ (hc.write_chan /\ hc.port) =>
               /\ hr.out = Append(hc.out, NickFrame(hn))
               /\ hr.write_chan
         /\ hr.user = IF hc.logged_in THEN hc.user ELSE with_nick(hc.user, hn)
         /\ hr.logged_in = hc.logged_in
    /\ (hop = "echoed" /\ hc.logged_in /\ hr.user # hc.user) =>
         /\ hl.command = IRCCmd(bNICK)
         /\ OwnNick
         /\ hr.user = with_nick(hc.user, hl.args[1])

\* logged in as "n", set_nick("ab__") enqueued its NICK frame and left the
\* User alone; the server's NICK line then renamed the client
C31_Witness ==
    /\ hop = "echoed" /\ SetNickOpen /\ hc.logged_in
    /\ User_nick(hc.user) = bn
    /\ hn = <<"a", "b", "_", "_">>
    /\ hl.args = <<hn>>
    /\ hr.out = <<NickFrame(hn)>>
    /\ User_nick(hr.user) = hn

\* ------------------------------------------------------------------------
\* Lines outside the handler table
\* ------------------------------------------------------------------------

HandshakeTable ==
    {IRCCode(1), IRCCode(433), IRCCode(432), IRCCode(436), IRCCode(437),
     IRCCmd(bPING)}
NormalTable == {IRCCmd(bPING), IRCCmd(bNICK)}

\* the command has no handler in the state the connection is in
OutsideTable(logged_in, command) ==
    IF logged_in THEN command \notin NormalTable
    ELSE command \notin HandshakeTable

\* C33: handle_line on a line whose command has no handler for the current
\* login state returns the connection as it was: logged_in, the User, the
\* channel handle and the enqueued frames are all unchanged.  This covers
\* 001 and the collision numerics dispatched after login.
C33_Untouched ==
    /\ (hop = "handled" /\ OutsideTable(hc.logged_in, hl.command)) => hr = hc
    /\ (hop = "echoed" /\ OutsideTable(set_nick(hc, hn).logged_in, hl.command)) =>
          hr = set_nick(hc, hn)

\* 433 naming the client's nick, dispatched after login on an open channel,
\* changed nothing
C33_Witness ==
    /\ hop = "handled" /\ hc.logged_in /\ hc.write_chan /\ hc.port
    /\ hl.command = IRCCode(433)
    /\ hl.args = <<User_nick(hc.user)>>
    /\ hr = hc

\* ------------------------------------------------------------------------
\* is_connected at the points where the caller's code runs
\* ------------------------------------------------------------------------

\* the writer still receives from the outbound channel, so that no enqueue
\* can have failed
WriterReceiving == wpc # "done"

\* the loop is about to run an external command
CommandInLoop == pc = "chk_cmd" /\ opts.commands /\ cmdQ # <<>>

\* is_connected() as the caller's code sees it after the Connected callback:
\* at LineReceived and in a command run by the loop it is true while the
\* writer receives; at Disconnected and in the shutdown drain it is false
IsConnectedAfterStart ==
    /\ (pc = "cb_line" /\ WriterReceiving) => is_connected(conn)
    /\ (CommandInLoop /\ WriterReceiving) => is_connected(conn)
    /\ pc = "procs" => ~is_connected(conn)

\* C34: is_connected() is true when Connected or LineReceived is delivered
\* and when an external command runs inside the loop, no enqueue having
\* failed, and false when Disconnected is delivered and for the commands run
\* by the shutdown drain.
C34_IsConnected ==
    /\ pc = "cb_connected" => is_connected(conn)
    /\ IsConnectedAfterStart

\* ------------------------------------------------------------------------
\* The writer after the loop has been left
\* ------------------------------------------------------------------------

\* the loop of Conn::run has been left, by a break or by a failure
LoopLeft == PostLoop \/ pc = "failed"

\* the writer ends without having taken a frame: recv_opt() returned None
WriterSawClose == wpc = "recv" /\ wpc' = "done" /\ writeQ' = writeQ

\* C32: once the loop has been left the writer terminates under fair
\* scheduling: while it runs, the writer can take a step or the task of
\* connect can go on to close the channel, no step adds a frame to a closed
\* channel and every step of the writer takes one off or ends the writer.
\* A closed channel that still holds frames does not end the writer, and
\* when the writer ends without a failed write the channel is closed and
\* empty and every frame enqueued has been written.
C32_WriterDrains ==
    /\ []((LoopLeft /\ wpc = "recv") =>
            /\ \/ ENABLED WriterStep
               \/ pc \in {"final", "close"} /\ ENABLED LoopNext
            /\ writeQ # <<>> => ~ENABLED WriterExit)
    /\ [][/\ (WriteChanClosed /\ wpc = "recv") =>
               \/ Len(writeQ') < Len(writeQ)
               \/ wpc' = "done"
               \/ writeQ' = writeQ /\ wpc' = wpc
          /\ WriterSawClose =>
               /\ WriteChanClosed
               /\ writeQ = <<>>
               /\ written = Enqueued]_vars

\* connect has returned and the writer has ended after writing all three
\* frames enqueued, the QUIT of the last command among them
C32_Witness ==
    /\ pc = "done" /\ wpc = "done"
    /\ Len(Enqueued) = 3
    /\ written = Enqueued
    /\ written[3] = QuitFrame

====
